---------------------------- MODULE Spec2Model ----------------------------
(***************************************************************************)
(* Model of the zserio C++11 "safe" runtime core: the bit stream reader    *)
(* (BitStreamReader.cpp/.h), the var-integer size calculator               *)
(* (BitSizeOfCalculator.cpp), the delta packing context (DeltaContext.h)   *)
(* and the array engine (Array.h).                                         *)
(*                                                                         *)
(* Machine integers are modelled as byte vectors: a value of a w-bit C++   *)
(* type is a sequence of w/8 bytes, most significant byte first.  All C++  *)
(* operators used by the code (<<, >>, &, |, +, unary -, casts) are        *)
(* modelled on these vectors, so every width and every wrap-around of the  *)
(* source is kept.                                                         *)
(***************************************************************************)
EXTENDS Integers, Sequences, FiniteSets, TLC

VARIABLES
    rd,      \* the BitStreamReader::ReaderContext (plus the span it borrows)
    res,     \* the Result<T> of the last operation, with its arguments
    wr,      \* the BitStreamWriter
    items,   \* the values handed to the writer so far, in order
    phase,   \* position of the driving program
    outs     \* what the reader returned for each item, in order

vars == <<rd, res, wr, items, phase, outs>>

\* the element of a one-element set: The({e : r \in {x}}) is e with r bound to
\* the value of x, as a C++ local initialised once
The(S) == CHOOSE y \in S : TRUE

---------------------------------------------------------------------------
(* Byte vectors *)

\* the vector of L bytes whose i-th byte is f[i], as a tuple
Bytes(L, f) == SubSeq(f, 1, L)

BvZero(L) == Bytes(L, [i \in 1..L |-> 0])

\* the L-byte vector of a natural number n < 2^31
BvOfNat(n, L) == Bytes(L, [i \in 1..L |-> IF L - i > 3 THEN 0 ELSE (n \div (2 ^ (8 * (L - i)))) % 256])

BvIsZero(a) == \A i \in 1..Len(a) : a[i] = 0

byteAt(a, j) == IF j >= 1 /\ j <= Len(a) THEN a[j] ELSE 0

\* the natural number of a vector whose value is below 2^31
BvToNat(a) ==
    byteAt(a, Len(a)) + 256 * byteAt(a, Len(a) - 1) + 65536 * byteAt(a, Len(a) - 2)
    + 16777216 * byteAt(a, Len(a) - 3)

\* C++ a >> s on an unsigned type, s below the width
BvShr(a, s) ==
    LET q == s \div 8
        r == s % 8
    IN  Bytes(Len(a), [i \in 1..Len(a) |-> (byteAt(a, i - q) \div (2 ^ r))
                                 + (byteAt(a, i - q - 1) % (2 ^ r)) * (2 ^ (8 - r))])

\* C++ a << s on an unsigned type, s below the width
BvShl(a, s) ==
    LET q == s \div 8
        r == s % 8
    IN  Bytes(Len(a), [i \in 1..Len(a) |-> (byteAt(a, i + q) % (2 ^ (8 - r))) * (2 ^ r)
                                 + (byteAt(a, i + q + 1) \div (2 ^ (8 - r)))])

\* bit k (0-based, most significant first) of a byte
ByteBit(b, k) == (b \div (2 ^ (7 - k))) % 2

\* x & y of two bytes, from the least significant bit on
ByteAnd[x \in 0..255, y \in 0..255] ==
    IF x = 0 \/ y = 0 THEN 0 ELSE (x % 2) * (y % 2) + 2 * ByteAnd[x \div 2, y \div 2]

\* C++ a & b
BvAnd(a, b) == Bytes(Len(a), [i \in 1..Len(a) |-> ByteAnd[a[i], b[i]]])

\* C++ a | b
BvOr(a, b) == Bytes(Len(a), [i \in 1..Len(a) |-> a[i] + b[i] - ByteAnd[a[i], b[i]]])

\* static_cast to an unsigned type of L bytes (truncation or zero extension)
BvCast(a, L) == Bytes(L, [i \in 1..L |-> byteAt(a, i - (L - Len(a)))])

\* conversion of a signed value to a type of L bytes (sign extension)
BvSignCast(a, L) ==
    Bytes(L, [i \in 1..L |-> IF i - (L - Len(a)) >= 1 THEN a[i - (L - Len(a))]
                        ELSE IF a[1] >= 128 THEN 255 ELSE 0])

\* C++ a + b on unsigned operands of the same width (modulo 2^w)
BvAdd(a, b) ==
    LET carry[i \in 1..(Len(a) + 1)] ==
            IF i > Len(a) THEN 0 ELSE (a[i] + b[i] + carry[i + 1]) \div 256
    IN  Bytes(Len(a), [i \in 1..Len(a) |-> (a[i] + b[i] + carry[i + 1]) % 256])

\* C++ unary minus (two's complement)
BvNeg(a) == BvAdd(Bytes(Len(a), [i \in 1..Len(a) |-> 255 - a[i]]), BvOfNat(1, Len(a)))

\* C++ a > b on unsigned operands of the same width
BvGt(a, b) ==
    \E i \in 1..Len(a) : a[i] > b[i] /\ \A j \in 1..(i - 1) : a[j] = b[j]

\* MASK_TABLE[n] as an L-byte value: the n low bits set
MASK_TABLE(n, L) ==
    Bytes(L, [i \in 1..L |-> IF n >= 8 * (L - i) + 8 THEN 255
                        ELSE IF n <= 8 * (L - i) THEN 0
                        ELSE (2 ^ (n - 8 * (L - i))) - 1])

---------------------------------------------------------------------------
(* ErrorCode.h *)

ErrorCode ==
    [Success |-> "Success", EndOfStream |-> "EndOfStream",
     InvalidBitPosition |-> "InvalidBitPosition", InvalidNumBits |-> "InvalidNumBits",
     BufferOverflow |-> "BufferOverflow", WrongBufferBitSize |-> "WrongBufferBitSize",
     InvalidParameter |-> "InvalidParameter", OutOfRange |-> "OutOfRange",
     DivisionByZero |-> "DivisionByZero", InvalidOffset |-> "InvalidOffset"]

\* Result<T>: the reader context after the call, the error code, the value
Result(ctx, err, value) == [ctx |-> ctx, err |-> err, value |-> value]

---------------------------------------------------------------------------
(* BitStreamReader *)

\* parse8 .. parse64: numBytes bytes from byteIndex on, big endian, as an L-byte
\* value.  A byte beyond the span reads as 0 here; loadCacheNext records that
\* read as undefined.
parse(buffer, byteIndex, numBytes, L) ==
    Bytes(L, [i \in 1..L |-> IF i - (L - numBytes) < 1 \/ byteIndex + i - (L - numBytes) > Len(buffer)
                        THEN 0 ELSE buffer[byteIndex + i - (L - numBytes)]])

\* ReaderContext constructor.  cacheBitSize is sizeof(BaseType) * 8 of the build
\* (ZSERIO_RUNTIME_64BIT or not); shiftWraps is what the target does with a shift
\* by at least the operand width, which C++ leaves undefined: the count taken
\* modulo the width (TRUE) or all bits shifted out (FALSE).  ub records that an
\* operation with undefined behaviour has been executed on this context,
\* pastEnd that a byte at an index beyond the span has been read.
ReaderContext(readBuffer, readBufferBitSize, cacheBitSize, shiftWraps) ==
    [buffer |-> readBuffer, bufferBitSize |-> readBufferBitSize,
     cacheBitSize |-> cacheBitSize, shiftWraps |-> shiftWraps,
     cache |-> BvZero(cacheBitSize \div 8), cacheNumBits |-> 0, bitIndex |-> 0,
     ub |-> FALSE, pastEnd |-> FALSE]

\* ctx.cache >> s as the target executes it
cacheShr(ctx, a, s) ==
    IF s < 8 * Len(a) THEN BvShr(a, s)
    ELSE IF ctx.shiftWraps THEN BvShr(a, s % (8 * Len(a))) ELSE BvZero(Len(a))

\* loadCacheNext that clears the byte of the span at the reader's position
loadCacheNextConsume(ctx, numBits) ==
    [ctx EXCEPT !.cache = parse(ctx.buffer, ctx.bitIndex \div 8, 1, ctx.cacheBitSize \div 8),
                !.cacheNumBits = IF ctx.bufferBitSize - ctx.bitIndex >= 8 THEN 8
                                 ELSE (ctx.bufferBitSize - ctx.bitIndex) % 256,
                !.buffer = [i \in 1..Len(ctx.buffer) |->
                                IF i = (ctx.bitIndex \div 8) + 1 THEN 0 ELSE ctx.buffer[i]]]

loadCacheNext(ctx, numBits) ==
    LET W == ctx.cacheBitSize
        byteIndex == ctx.bitIndex \div 8
        cacheNumBits == (ctx.bufferBitSize - ctx.bitIndex) % 256
        alignedNumBits == (((cacheNumBits + 7) \div 8) * 8) % 256
        \* the number of bytes the switch parses
        n == IF W = 64 /\ alignedNumBits \in {64, 56, 48, 40} THEN alignedNumBits \div 8
             ELSE IF alignedNumBits \in {32, 24, 16} THEN alignedNumBits \div 8
             ELSE 1
        shift == (alignedNumBits - cacheNumBits) % 256
    IN  IF ctx.bufferBitSize >= ctx.bitIndex + W
        THEN [ctx EXCEPT !.cache = parse(ctx.buffer, byteIndex, W \div 8, W \div 8),
                         !.cacheNumBits = W,
                         !.ub = @ \/ byteIndex + (W \div 8) > Len(ctx.buffer),
                         !.pastEnd = @ \/ byteIndex + (W \div 8) > Len(ctx.buffer)]
        ELSE [ctx EXCEPT !.cache = cacheShr(ctx, parse(ctx.buffer, byteIndex, n, W \div 8), shift),
                         !.cacheNumBits = cacheNumBits,
                         !.ub = @ \/ byteIndex + n > Len(ctx.buffer) \/ shift >= W,
                         !.pastEnd = @ \/ byteIndex + n > Len(ctx.buffer)]

\* readBitsImpl: [ctx, value], value of BaseType width
readBitsImpl(ctx, numBits) ==
    LET W == ctx.cacheBitSize
        refill == ctx.cacheNumBits < numBits
        rest == IF refill THEN numBits - ctx.cacheNumBits ELSE numBits
        \* value = cache & MASK_TABLE[cacheNumBits]; if (numBits < W) value <<= numBits
        shifted(masked) == IF rest < W THEN BvShl(masked, rest) ELSE masked
        value == IF ~refill THEN BvZero(W \div 8)
                 ELSE shifted(BvAnd(ctx.cache, MASK_TABLE(ctx.cacheNumBits, W \div 8)))
        \* value |= (cache >> (cacheNumBits - numBits)) & MASK_TABLE[numBits] on the
        \* context c that the refill left
        taken(c, shift) ==
            [ctx |-> [c EXCEPT !.cacheNumBits = shift,
                               !.bitIndex = @ + rest,
                               !.ub = @ \/ shift >= W \/ rest > W],
             value |-> BvOr(value, BvAnd(cacheShr(c, c.cache, shift),
                                         MASK_TABLE(rest, W \div 8)))]
        refilled(c) == taken(c, (c.cacheNumBits - rest) % 256)
    IN  refilled(IF refill
                 THEN loadCacheNext([ctx EXCEPT !.bitIndex = @ + ctx.cacheNumBits], rest)
                 ELSE ctx)

\* a sign extension that leaves the bits as read
signExtendNone(r, numBits, L) == r

\* the sign extension of readSignedBitsImpl and readSignedBits64 applied to the
\* L-byte value that was read
signExtend(r, numBits, L) ==
    IF numBits # 0 /\ numBits < 8 * L
       /\ ~BvGt(BvShl(BvOfNat(1, L), numBits - 1), r.value)
    THEN [r EXCEPT !.value = BvAdd(r.value, BvNeg(BvShl(BvOfNat(1, L), numBits)))]
    ELSE r

\* readSignedBitsImpl: value of BaseSignedType width (two's complement)
readSignedBitsImpl(ctx, numBits) ==
    signExtend(readBitsImpl(ctx, numBits), numBits, ctx.cacheBitSize \div 8)

\* readBits64Impl (32 bit builds only): always reads more than 32 bits
readBits64Impl(ctx, numBits) ==
    LET rest == numBits - 32
        joined(hi, lo) ==
            [ctx |-> lo.ctx,
             value |-> BvOr(BvShl(BvCast(hi.value, 8), rest), BvCast(lo.value, 8))]
        low(hi) == joined(hi, readBitsImpl(hi.ctx, rest))
    IN  low(readBitsImpl(ctx, 32))

\* the buffer.size() < (bufferBitSize + 7) / 8 validation of every read
wrongBufferBitSize(ctx) == Len(ctx.buffer) < (ctx.bufferBitSize + 7) \div 8

\* readBits with the width check moved before the buffer size check
readBitsWidthFirst(ctx, numBits) ==
    IF numBits > 32 THEN Result(ctx, ErrorCode.InvalidNumBits, BvZero(4))
    ELSE IF wrongBufferBitSize(ctx) THEN Result(ctx, ErrorCode.WrongBufferBitSize, BvZero(4))
    ELSE IF ctx.bitIndex + numBits > ctx.bufferBitSize
         THEN Result(ctx, ErrorCode.EndOfStream, BvZero(4))
    ELSE LET done(r) == Result(r.ctx, ErrorCode.Success, BvCast(r.value, 4))
         IN  done(readBitsImpl(ctx, numBits))

readBits(ctx, numBits) ==
    IF wrongBufferBitSize(ctx) THEN Result(ctx, ErrorCode.WrongBufferBitSize, BvZero(4))
    ELSE IF numBits > 32 THEN Result(ctx, ErrorCode.InvalidNumBits, BvZero(4))
    ELSE IF ctx.bitIndex + numBits > ctx.bufferBitSize
         THEN Result(ctx, ErrorCode.EndOfStream, BvZero(4))
    ELSE LET done(r) == Result(r.ctx, ErrorCode.Success, BvCast(r.value, 4))
         IN  done(readBitsImpl(ctx, numBits))

\* readBits64 that empties the cache when it fails
readBits64DropCache(ctx, numBits) ==
    IF wrongBufferBitSize(ctx)
    THEN Result([ctx EXCEPT !.cacheNumBits = 0], ErrorCode.WrongBufferBitSize, BvZero(8))
    ELSE IF numBits > 64
    THEN Result([ctx EXCEPT !.cacheNumBits = 0], ErrorCode.InvalidNumBits, BvZero(8))
    ELSE IF ctx.bitIndex + numBits > ctx.bufferBitSize
         THEN Result([ctx EXCEPT !.cacheNumBits = 0], ErrorCode.EndOfStream, BvZero(8))
    ELSE LET done(r) == Result(r.ctx, ErrorCode.Success, BvCast(r.value, 8))
         IN  done(IF ctx.cacheBitSize = 64 \/ numBits <= 32
                  THEN readBitsImpl(ctx, numBits)
                  ELSE readBits64Impl(ctx, numBits))

readBits64(ctx, numBits) ==
    IF wrongBufferBitSize(ctx) THEN Result(ctx, ErrorCode.WrongBufferBitSize, BvZero(8))
    ELSE IF numBits > 64 THEN Result(ctx, ErrorCode.InvalidNumBits, BvZero(8))
    ELSE IF ctx.bitIndex + numBits > ctx.bufferBitSize
         THEN Result(ctx, ErrorCode.EndOfStream, BvZero(8))
    ELSE LET done(r) == Result(r.ctx, ErrorCode.Success, BvCast(r.value, 8))
         IN  done(IF ctx.cacheBitSize = 64 \/ numBits <= 32
                  THEN readBitsImpl(ctx, numBits)
                  ELSE readBits64Impl(ctx, numBits))

readSignedBits64(ctx, numBits) ==
    IF wrongBufferBitSize(ctx) THEN Result(ctx, ErrorCode.WrongBufferBitSize, BvZero(8))
    ELSE IF numBits > 64 THEN Result(ctx, ErrorCode.InvalidNumBits, BvZero(8))
    ELSE IF ctx.bitIndex + numBits > ctx.bufferBitSize
         THEN Result(ctx, ErrorCode.EndOfStream, BvZero(8))
    ELSE LET done(r) == Result(r.ctx, ErrorCode.Success, BvSignCast(r.value, 8))
         IN  done(IF ctx.cacheBitSize = 64 \/ numBits <= 32
                  THEN readSignedBitsImpl(ctx, numBits)
                  ELSE signExtend(readBits64Impl(ctx, numBits), numBits, 8))

readSignedBits(ctx, numBits) ==
    IF wrongBufferBitSize(ctx) THEN Result(ctx, ErrorCode.WrongBufferBitSize, BvZero(4))
    ELSE IF numBits > 32 THEN Result(ctx, ErrorCode.InvalidNumBits, BvZero(4))
    ELSE IF ctx.bitIndex + numBits > ctx.bufferBitSize
         THEN Result(ctx, ErrorCode.EndOfStream, BvZero(4))
    ELSE LET done(r) == Result(r.ctx, ErrorCode.Success, BvCast(r.value, 4))
         IN  done(readSignedBitsImpl(ctx, numBits))

readBool(ctx) ==
    IF wrongBufferBitSize(ctx) THEN Result(ctx, ErrorCode.WrongBufferBitSize, FALSE)
    ELSE IF ctx.bitIndex + 1 > ctx.bufferBitSize
         THEN Result(ctx, ErrorCode.EndOfStream, FALSE)
    ELSE LET done(r) == Result(r.ctx, ErrorCode.Success, ~BvIsZero(r.value))
         IN  done(readBitsImpl(ctx, 1))

\* VARINT_SIGN_1 .. VARUINT_HAS_NEXT: the masks of the var-integer bytes
VARINT ==
    [SIGN_1 |-> <<128>>, BYTE_1 |-> <<63>>, BYTE_N |-> <<127>>, HAS_NEXT_1 |-> <<64>>,
     HAS_NEXT_N |-> <<128>>, VARUINT_BYTE |-> <<127>>, VARUINT_HAS_NEXT |-> <<128>>]

\* VARSIZE_MAX_VALUE = (1 << 31) - 1 as a uint32_t
VARSIZE_MAX_VALUE == <<127, 255, 255, 255>>

\* bytes 2..maxBytes of a var-integer: before every byte the
\* bitIndex + 8 > bufferBitSize check, then result << 7 | (byte & 0x7f), the
\* last possible byte as result << 8 | byte
RECURSIVE readVarNumNext(_, _, _, _)
readVarNumNext(ctx, result, i, maxBytes) ==
    IF ctx.bitIndex + 8 > ctx.bufferBitSize
    THEN Result(ctx, ErrorCode.EndOfStream, BvZero(Len(result)))
    ELSE LET more(c, next) == readVarNumNext(c, next, i + 1, maxBytes)
             taken(c, byte) ==
                 IF i = maxBytes
                 THEN Result(c, ErrorCode.Success,
                             BvOr(BvShl(result, 8), BvCast(byte, Len(result))))
                 ELSE IF BvIsZero(BvAnd(byte, VARINT.HAS_NEXT_N))
                 THEN Result(c, ErrorCode.Success,
                             BvOr(BvShl(result, 7),
                                  BvCast(BvAnd(byte, VARINT.BYTE_N), Len(result))))
                 ELSE more(c, BvOr(BvShl(result, 7),
                                   BvCast(BvAnd(byte, VARINT.BYTE_N), Len(result))))
             nextByte(r) == taken(r.ctx, BvCast(r.value, 1))
         IN  nextByte(readBitsImpl(ctx, 8))

\* the common shape of the unsigned var-integer reads; the result is L bytes wide
readVarUNum(ctx, maxBytes, L) ==
    IF wrongBufferBitSize(ctx) THEN Result(ctx, ErrorCode.WrongBufferBitSize, BvZero(L))
    ELSE IF ctx.bitIndex + 8 > ctx.bufferBitSize
         THEN Result(ctx, ErrorCode.EndOfStream, BvZero(L))
    ELSE LET first(c, byte, result) ==
                 IF BvIsZero(BvAnd(byte, VARINT.VARUINT_HAS_NEXT))
                 THEN Result(c, ErrorCode.Success, result)
                 ELSE readVarNumNext(c, result, 2, maxBytes)
             taken(c, byte) == first(c, byte, BvCast(BvAnd(byte, VARINT.VARUINT_BYTE), L))
             firstByte(r) == taken(r.ctx, BvCast(r.value, 1))
         IN  firstByte(readBitsImpl(ctx, 8))

\* the common shape of the signed var-integer reads: sign ? -result : result;
\* minOnNegZero is readVarInt's INT64_MIN for a negative zero in byte 1
readVarSNum(ctx, maxBytes, L, minOnNegZero) ==
    IF wrongBufferBitSize(ctx) THEN Result(ctx, ErrorCode.WrongBufferBitSize, BvZero(L))
    ELSE IF ctx.bitIndex + 8 > ctx.bufferBitSize
         THEN Result(ctx, ErrorCode.EndOfStream, BvZero(L))
    ELSE LET signed(m, sign, negZero) ==
                 IF m.err # ErrorCode.Success \/ ~sign THEN m
                 ELSE IF minOnNegZero /\ negZero
                 THEN [m EXCEPT !.value = BvShl(BvOfNat(1, 8), 63)]
                 ELSE [m EXCEPT !.value = BvNeg(m.value)]
             first(c, sign, single, result) ==
                 signed(IF single THEN Result(c, ErrorCode.Success, result)
                        ELSE readVarNumNext(c, result, 2, maxBytes),
                        sign, single /\ BvIsZero(result))
             taken(c, byte) ==
                 first(c, ~BvIsZero(BvAnd(byte, VARINT.SIGN_1)),
                       BvIsZero(BvAnd(byte, VARINT.HAS_NEXT_1)),
                       BvCast(BvAnd(byte, VARINT.BYTE_1), L))
             firstByte(r) == taken(r.ctx, BvCast(r.value, 1))
         IN  firstByte(readBitsImpl(ctx, 8))

\* readVarInt32 that takes byte 1 as seven payload bits without a sign
readVarInt32Unsigned(ctx) == readVarUNum(ctx, 4, 4)

readVarInt32(ctx) == readVarSNum(ctx, 4, 4, FALSE)

\* readVarInt that negates a negative zero like every other magnitude
readVarIntNoMin(ctx) == readVarSNum(ctx, 9, 8, FALSE)

readVarInt(ctx) == readVarSNum(ctx, 9, 8, TRUE)

readVarSize(ctx) ==
    LET checked(r) ==
            IF r.err = ErrorCode.Success /\ r.ctx.bitIndex = ctx.bitIndex + 40
               /\ BvGt(r.value, VARSIZE_MAX_VALUE)
            THEN Result(r.ctx, ErrorCode.OutOfRange, BvZero(4))
            ELSE r
    IN  checked(readVarUNum(ctx, 5, 4))

\* the var-integer read of a family: readVarInt16 .. readVarSize
readVarNum(kind, ctx) ==
    CASE kind = "varint32" -> readVarInt32(ctx)
      [] kind = "varint" -> readVarInt(ctx)
      [] kind = "varsize" -> readVarSize(ctx)
      [] kind \in {"varint16", "varint64"} ->
            readVarSNum(ctx, IF kind = "varint16" THEN 2 ELSE 8,
                        IF kind = "varint16" THEN 2 ELSE 8, FALSE)
      [] kind \in {"varuint16", "varuint32", "varuint64", "varuint"} ->
            readVarUNum(ctx,
                        CASE kind = "varuint16" -> 2 [] kind = "varuint32" -> 4
                          [] kind = "varuint64" -> 8 [] kind = "varuint" -> 9,
                        CASE kind = "varuint16" -> 2 [] kind = "varuint32" -> 4
                          [] OTHER -> 8)

\* setBitPosition that keeps the cache it finds
setBitPositionKeepCache(ctx, position) ==
    LET skip == (position - (position \div 8) * 8) % 256
        moved(c) ==
            IF skip = 0 THEN Result(c, ErrorCode.Success, <<>>)
            ELSE IF c.bitIndex + skip > c.bufferBitSize
                 THEN Result(c, ErrorCode.EndOfStream, <<>>)
            ELSE Result(readBitsImpl(c, skip).ctx, ErrorCode.Success, <<>>)
    IN  IF position > ctx.bufferBitSize THEN Result(ctx, ErrorCode.InvalidBitPosition, <<>>)
        ELSE moved([ctx EXCEPT !.bitIndex = (position \div 8) * 8])

setBitPosition(ctx, position) ==
    LET skip == (position - (position \div 8) * 8) % 256
        moved(c) ==
            IF skip = 0 THEN Result(c, ErrorCode.Success, <<>>)
            ELSE IF c.bitIndex + skip > c.bufferBitSize
                 THEN Result(c, ErrorCode.EndOfStream, <<>>)
            ELSE Result(readBitsImpl(c, skip).ctx, ErrorCode.Success, <<>>)
    IN  IF position > ctx.bufferBitSize THEN Result(ctx, ErrorCode.InvalidBitPosition, <<>>)
        ELSE moved([ctx EXCEPT !.bitIndex = (position \div 8) * 8, !.cacheNumBits = 0])

alignTo(ctx, alignment) ==
    LET offset == ctx.bitIndex % alignment
        skip == (alignment - offset) % 256
    IN  IF offset = 0 THEN Result(ctx, ErrorCode.Success, <<>>)
        ELSE IF ctx.bitIndex + skip > ctx.bufferBitSize
             THEN Result(ctx, ErrorCode.EndOfStream, <<>>)
        ELSE IF skip <= 64 THEN Result(readBitsImpl(ctx, skip).ctx, ErrorCode.Success, <<>>)
        ELSE Result(ctx, ErrorCode.InvalidParameter, <<>>)

readByte(ctx) ==
    IF ctx.bitIndex + 8 > ctx.bufferBitSize
    THEN Result(ctx, ErrorCode.EndOfStream, BvZero(1))
    ELSE LET done(r) == Result(r.ctx, ErrorCode.Success, BvCast(r.value, 1))
         IN  done(readBitsImpl(ctx, 8))

---------------------------------------------------------------------------
(* BitSizeOfCalculator *)

\* (UINT64_C(1) << bits) - 1
maxValueOf(bits) == MASK_TABLE(bits, 8)

\* the tables VARIN16_MAX_VALUES .. VARSIZE_MAX_VALUES
MAX_VALUES ==
    [VARIN16_MAX_VALUES |-> <<maxValueOf(6), maxValueOf(14)>>,
     VARINT32_MAX_VALUES |-> <<maxValueOf(6), maxValueOf(13), maxValueOf(20), maxValueOf(28)>>,
     VARINT64_MAX_VALUES |->
        <<maxValueOf(6), maxValueOf(13), maxValueOf(20), maxValueOf(27), maxValueOf(34),
          maxValueOf(41), maxValueOf(48), maxValueOf(56)>>,
     VARUINT16_MAX_VALUES |-> <<maxValueOf(7), maxValueOf(15)>>,
     VARUINT32_MAX_VALUES |-> <<maxValueOf(7), maxValueOf(14), maxValueOf(21), maxValueOf(29)>>,
     VARUINT64_MAX_VALUES |->
        <<maxValueOf(7), maxValueOf(14), maxValueOf(21), maxValueOf(28), maxValueOf(35),
          maxValueOf(42), maxValueOf(49), maxValueOf(57)>>,
     VARINT_MAX_VALUES |->
        <<maxValueOf(6), maxValueOf(13), maxValueOf(20), maxValueOf(27), maxValueOf(34),
          maxValueOf(41), maxValueOf(48), maxValueOf(55), maxValueOf(63)>>,
     VARUINT_MAX_VALUES |->
        <<maxValueOf(7), maxValueOf(14), maxValueOf(21), maxValueOf(28), maxValueOf(35),
          maxValueOf(42), maxValueOf(49), maxValueOf(56), <<255, 255, 255, 255, 255, 255, 255, 255>>>>,
     VARSIZE_MAX_VALUES |->
        <<maxValueOf(7), maxValueOf(14), maxValueOf(21), maxValueOf(28), maxValueOf(31)>>]

\* the loop of bitSizeOfVarIntImpl: byteSize when the loop is left, entered at
\* the table entry byteSize
RECURSIVE varIntByteSize(_, _, _)
varIntByteSize(value, maxValues, byteSize) ==
    IF byteSize > Len(maxValues) THEN byteSize
    ELSE IF ~BvGt(value, maxValues[byteSize]) THEN byteSize
    ELSE varIntByteSize(value, maxValues, byteSize + 1)

\* Result<size_t>: the error code and the size in bits
bitSizeOfVarIntImpl(value, maxValues) ==
    LET sized(byteSize) ==
            IF byteSize > Len(maxValues) THEN [err |-> ErrorCode.OutOfRange, value |-> 0]
            ELSE [err |-> ErrorCode.Success, value |-> byteSize * 8]
    IN  sized(varIntByteSize(value, maxValues, 1))

\* convertToAbsValue<T>: (value < 0) ? -value : value, computed in int for the
\* types narrower than int, converted to uint64_t.  -value of the minimum of
\* int32_t or int64_t overflows (undefined); it is taken as the wrapped value,
\* which like every other outcome above the table maximum ends in OutOfRange.
convertToAbsValue(value) ==
    IF value[1] >= 128
    THEN BvSignCast(BvNeg(BvSignCast(value, IF Len(value) < 4 THEN 4 ELSE Len(value))), 8)
    ELSE BvSignCast(value, 8)

\* the table of a family
maxValuesOf(kind) ==
    MAX_VALUES[CASE kind = "varint16" -> "VARIN16_MAX_VALUES"
                 [] kind = "varint32" -> "VARINT32_MAX_VALUES"
                 [] kind = "varint64" -> "VARINT64_MAX_VALUES"
                 [] kind = "varuint16" -> "VARUINT16_MAX_VALUES"
                 [] kind = "varuint32" -> "VARUINT32_MAX_VALUES"
                 [] kind = "varuint64" -> "VARUINT64_MAX_VALUES"
                 [] kind = "varint" -> "VARINT_MAX_VALUES"
                 [] kind = "varuint" -> "VARUINT_MAX_VALUES"
                 [] kind = "varsize" -> "VARSIZE_MAX_VALUES"]

\* bitSizeOfVarInt16 .. bitSizeOfVarSize, by family: the signed families pass
\* convertToAbsValue(value), the unsigned ones the value; bitSizeOfVarInt
\* returns 8 for INT64_MIN
bitSizeOfVarNum(kind, value) ==
    IF kind = "varint" /\ value = BvShl(BvOfNat(1, 8), 63)
    THEN [err |-> ErrorCode.Success, value |-> 8]
    ELSE bitSizeOfVarIntImpl(IF kind \in {"varint16", "varint32", "varint64", "varint"}
                             THEN convertToAbsValue(value)
                             ELSE BvCast(value, 8),
                             maxValuesOf(kind))

---------------------------------------------------------------------------
(* BitStreamWriter.  Its implementation file is not part of the sources; the  *)
(* writer is modelled from its declaration (BitStreamWriter.h) and from the  *)
(* wire format the design document gives: capacity check first, then the bits *)
(* stored most significant first; var-integers sized by the bitSizeOf         *)
(* functions and laid out per the family table.                               *)

\* BitStreamWriter::create: a writer over a caller-owned span
BitStreamWriter(buffer, bufferBitSize) ==
    [buffer |-> buffer, bufferBitSize |-> bufferBitSize, bitIndex |-> 0]

\* Result<void> of a write, with the writer after it
WResult(w, err) == [wr |-> w, err |-> err]

\* bit t (0 = least significant) of a value
BvBit(a, t) == (byteAt(a, Len(a) - (t \div 8)) \div (2 ^ (t % 8))) % 2

\* bytes k..last (1-based) of the span after the numBits low bits of data were
\* stored at bit position p
writtenBytes(buffer, p, data, numBits, k, last) ==
    LET bit(j) == IF j >= p /\ j < p + numBits THEN BvBit(data, numBits - 1 - (j - p))
                  ELSE ByteBit(buffer[(j \div 8) + 1], j % 8)
    IN  SubSeq([i \in 1..last |->
                   IF i < k THEN 0
                   ELSE 128 * bit(8 * i - 8) + 64 * bit(8 * i - 7) + 32 * bit(8 * i - 6)
                        + 16 * bit(8 * i - 5) + 8 * bit(8 * i - 4) + 4 * bit(8 * i - 3)
                        + 2 * bit(8 * i - 2) + bit(8 * i - 1)], k, last)

\* checkCapacity, then the numBits low bits of data stored at the bit position
writeUnsignedBits(w, data, numBits) ==
    LET p == w.bitIndex
        last == ((p + numBits - 1) \div 8) + 1
    IN  IF w.bitIndex + numBits > w.bufferBitSize THEN WResult(w, ErrorCode.BufferOverflow)
        ELSE IF numBits = 0 THEN WResult(w, ErrorCode.Success)
        ELSE WResult([w EXCEPT !.buffer = SubSeq(w.buffer, 1, p \div 8)
                                          \o writtenBytes(w.buffer, p, data, numBits,
                                                          (p \div 8) + 1, last)
                                          \o SubSeq(w.buffer, last + 1, Len(w.buffer)),
                               !.bitIndex = @ + numBits],
                     ErrorCode.Success)

\* writeBits and writeSignedBits (two's complement: the numBits low bits)
writeBits(w, data, numBits) ==
    IF numBits > 32 THEN WResult(w, ErrorCode.InvalidNumBits)
    ELSE writeUnsignedBits(w, data, numBits)

\* writeBits64 and writeSignedBits64
writeBits64(w, data, numBits) ==
    IF numBits > 64 THEN WResult(w, ErrorCode.InvalidNumBits)
    ELSE writeUnsignedBits(w, data, numBits)

writeBool(w, data) == writeUnsignedBits(w, IF data THEN <<1>> ELSE <<0>>, 1)

\* byte i of a var-integer on the wire: sign (byte 1 of the signed families),
\* continuation, payload (6 bits in byte 1 of a signed family, 8 in the last
\* possible byte, 7 otherwise)
varNumWireByte(value, hasSign, isNegative, maxVarBytes, numVarBytes, i) ==
    LET payloadBits == IF i = maxVarBytes THEN 8 ELSE IF i = 1 /\ hasSign THEN 6 ELSE 7
        bitsAfter == IF i >= numVarBytes THEN 0
                     ELSE 7 * (numVarBytes - i) + (IF numVarBytes = maxVarBytes THEN 1 ELSE 0)
    IN  (IF i = 1 /\ hasSign /\ isNegative THEN 128 ELSE 0)
        + (IF i < numVarBytes THEN (IF i = 1 /\ hasSign THEN 64 ELSE 128) ELSE 0)
        + BvToNat(BvAnd(BvShr(value, bitsAfter), MASK_TABLE(payloadBits, 8)))

RECURSIVE writeVarNum(_, _, _, _, _, _, _)
writeVarNum(w, value, hasSign, isNegative, maxVarBytes, numVarBytes, i) ==
    IF i > numVarBytes THEN WResult(w, ErrorCode.Success)
    ELSE writeVarNum(
             writeUnsignedBits(w, <<varNumWireByte(value, hasSign, isNegative,
                                                   maxVarBytes, numVarBytes, i)>>, 8).wr,
             value, hasSign, isNegative, maxVarBytes, numVarBytes, i + 1)

\* writeVarInt16 .. writeVarSize, by family: the size from the family's bitSizeOf
\* function, the capacity check for the whole encoding, then the bytes;
\* INT64_MIN as a varint is the single byte 0x80
writeVarFamily(w, kind, data) ==
    LET hasSign == kind \in {"varint16", "varint32", "varint64", "varint"}
        maxVarBytes == Len(maxValuesOf(kind))
        sized(size) ==
            IF size.err # ErrorCode.Success THEN WResult(w, size.err)
            ELSE IF w.bitIndex + size.value > w.bufferBitSize
                 THEN WResult(w, ErrorCode.BufferOverflow)
            ELSE IF kind = "varint" /\ data = BvShl(BvOfNat(1, 8), 63)
                 THEN writeUnsignedBits(w, <<128>>, 8)
            ELSE writeVarNum(w, IF hasSign THEN convertToAbsValue(data) ELSE BvCast(data, 8),
                             hasSign, hasSign /\ data[1] >= 128, maxVarBytes,
                             size.value \div 8, 1)
    IN  sized(bitSizeOfVarNum(kind, data))

---------------------------------------------------------------------------
(* A reader driven by an arbitrary caller *)

\* the span handed to the reader
ReaderBuffer == <<165, 60, 255, 0, 129, 126, 18, 239, 195, 90>>

noResult ==
    [op |-> "none", arg |-> 0, err |-> ErrorCode.Success, value |-> <<>>, pre |-> <<>>]

\* the reader is constructed over the span with a bit size of the whole span, of
\* a partial last byte, or of more than the span holds
InitReader ==
    /\ \E bits \in {8 * Len(ReaderBuffer), 8 * Len(ReaderBuffer) - 3,
                    8 * Len(ReaderBuffer) + 8},
          W \in {32, 64}, wraps \in BOOLEAN :
           /\ W = 64 => wraps
           /\ rd = ReaderContext(ReaderBuffer, bits, W, wraps)
    /\ res = noResult
    /\ wr = <<>>
    /\ items = <<>>
    /\ phase = "reader"
    /\ outs = <<>>

\* the caller invokes op with arg; r is what the operation returned
Called(op, arg, r) ==
    /\ rd' = r.ctx
    /\ res' = [op |-> op, arg |-> arg, err |-> r.err, value |-> r.value, pre |-> rd]
    /\ UNCHANGED <<wr, items, phase, outs>>

ReadBits == \E n \in {0, 1, 13, 32, 33} : Called("readBits", n, readBits(rd, n))

ReadBits64 == \E n \in {0, 33, 64, 65} : Called("readBits64", n, readBits64(rd, n))

ReadSignedBits == \E n \in {5, 32, 33} : Called("readSignedBits", n, readSignedBits(rd, n))

ReadSignedBits64 ==
    \E n \in {40, 64, 65} : Called("readSignedBits64", n, readSignedBits64(rd, n))

ReadBool == Called("readBool", 0, readBool(rd))

SetBitPosition == \E p \in {3, 8, 77, 80, 200} : Called("setBitPosition", p, setBitPosition(rd, p))

AlignTo == \E a \in {8, 64, 72, 260} : Called("alignTo", a, alignTo(rd, a))

ReadVarInt64 == Called("varint64", 0, readVarNum("varint64", rd))

NextReader ==
    \/ ReadVarInt64
    \/ ReadBits
    \/ ReadBits64
    \/ ReadSignedBits
    \/ ReadSignedBits64
    \/ ReadBool
    \/ SetBitPosition
    \/ AlignTo

SpecReader == InitReader /\ [][NextReader]_vars

\* the n bits of the span at positions [p, p + n), most significant first, as an
\* L-byte unsigned number
StreamBits(buffer, p, n, L) ==
    LET bit(j) == IF j <= 8 * L - n THEN 0
                  ELSE ByteBit(buffer[((p + j - (8 * L - n) - 1) \div 8) + 1],
                               (p + j - (8 * L - n) - 1) % 8)
    IN  Bytes(L, [i \in 1..L |->
            128 * bit(8 * i - 7) + 64 * bit(8 * i - 6) + 32 * bit(8 * i - 5)
            + 16 * bit(8 * i - 4) + 8 * bit(8 * i - 3) + 4 * bit(8 * i - 2)
            + 2 * bit(8 * i - 1) + bit(8 * i)])

\* C4: in every state reached by reads, setBitPosition and alignTo calls,
\* readBits(n) with 0 <= n <= 32 and at least n bits remaining (of a span that
\* holds bufferBitSize bits) returns the n stream bits at [p, p + n), most
\* significant first, as an unsigned number and leaves the position at p + n;
\* for n = 0 that is the value 0 and the position p.
C4_ReadBitsReturnsStreamBits ==
    (/\ res.op = "readBits"
     /\ ~wrongBufferBitSize(res.pre)
     /\ res.arg <= 32
     /\ res.pre.bitIndex + res.arg <= res.pre.bufferBitSize)
    => /\ res.err = ErrorCode.Success
       /\ res.value = StreamBits(res.pre.buffer, res.pre.bitIndex, res.arg, 4)
       /\ rd.bitIndex = res.pre.bitIndex + res.arg

C14_SetBitPosition ==
    (res.op = "setBitPosition" /\ ~wrongBufferBitSize(res.pre)) =>
        IF res.arg > res.pre.bufferBitSize THEN res.err = ErrorCode.InvalidBitPosition
        ELSE /\ res.err = ErrorCode.Success
             /\ rd.bitIndex = res.arg
             /\ \A n \in {0, 1, 13, 32} :
                    res.arg + n <= rd.bufferBitSize =>
                        The({/\ next.err = ErrorCode.Success
                             /\ next.value = StreamBits(rd.buffer, res.arg, n, 4)
                             /\ next.ctx.bitIndex = res.arg + n :
                             next \in {readBits(rd, n)}})

\* setBitPosition(3) was called at position 45 with 19 bits in the cache
C14_Witness ==
    /\ res.op = "setBitPosition"
    /\ res.arg = 3
    /\ res.pre.bitIndex = 45
    /\ res.pre.cacheNumBits = 19
    /\ res.err = ErrorCode.Success
    /\ rd.bitIndex = 3
    /\ rd.cacheNumBits = 29

\* C15: on a reader whose span holds bufferBitSize bits, alignTo(a) at a
\* position p for which the smallest multiple of a that is >= p does not exceed
\* bufferBitSize succeeds and leaves the position at that multiple; when p is
\* already a multiple of a, the position and the cache are unchanged.
C15_AlignTo ==
    (/\ res.op = "alignTo"
     /\ ~wrongBufferBitSize(res.pre)
     /\ ((res.pre.bitIndex + res.arg - 1) \div res.arg) * res.arg <= res.pre.bufferBitSize)
    => /\ res.err = ErrorCode.Success
       /\ rd.bitIndex = ((res.pre.bitIndex + res.arg - 1) \div res.arg) * res.arg
       /\ res.pre.bitIndex % res.arg = 0 => rd = res.pre

\* C27: no reader operation reads a byte at an index >= the span length: on a
\* reader constructed with bufferBitSize > 8 * span length every operation
\* that consumes bits (the fixed-width and var-integer reads, setBitPosition
\* with a target that is not byte aligned, alignTo at a position that is not
\* aligned) fails and leaves the reader untouched, and on a consistent reader
\* no cache refill reads past the last byte of the span.
C27_NoReadPastSpan ==
    /\ ~rd.pastEnd
    /\ (/\ res.op # "none"
        /\ wrongBufferBitSize(res.pre)
        /\ res.op = "setBitPosition" => res.arg % 8 # 0
        /\ res.op = "alignTo" => res.pre.bitIndex % res.arg # 0
        /\ res.op \in {"readBits", "readBits64", "readSignedBits", "readSignedBits64"}
               => res.arg # 0)
       => (res.err # ErrorCode.Success /\ rd = res.pre)

\* C28: a fixed-width read (readBits, readBits64, readSignedBits,
\* readSignedBits64, readBool) that fails with WrongBufferBitSize,
\* InvalidNumBits or EndOfStream leaves the bit position and the cache as they
\* were, so a following read returns what it would have returned without the
\* failed call.
C28_FailedReadLeavesReader ==
    (/\ res.op \in {"readBits", "readBits64", "readSignedBits", "readSignedBits64",
                    "readBool"}
     /\ res.err \in {ErrorCode.WrongBufferBitSize, ErrorCode.InvalidNumBits,
                     ErrorCode.EndOfStream})
    => /\ rd.bitIndex = res.pre.bitIndex
       /\ rd.cache = res.pre.cache
       /\ rd.cacheNumBits = res.pre.cacheNumBits
       /\ \A n \in {1, 3, 8} : readBits(rd, n) = readBits(res.pre, n)

\* a readBits of 13 bits failed near the end of a stream of 77 bits with bits
\* left in the cache
C28_Witness ==
    /\ res.op = "readBits"
    /\ res.arg = 13
    /\ res.err = ErrorCode.EndOfStream
    /\ res.pre.cacheNumBits > 0
    /\ res.pre.bufferBitSize = 77
    /\ rd = res.pre

\* C30: on a reader whose span holds at least ceil(bufferBitSize / 8) bytes,
\* after every operation, successful or failed, bitIndex + cacheNumBits <=
\* bufferBitSize, and the low cacheNumBits bits of the cache are the stream
\* bits at [bitIndex, bitIndex + cacheNumBits).
C30_CacheInvariant ==
    ~wrongBufferBitSize(rd) =>
        /\ rd.bitIndex + rd.cacheNumBits <= rd.bufferBitSize
        /\ rd.bitIndex <= rd.bufferBitSize
        /\ BvAnd(rd.cache, MASK_TABLE(rd.cacheNumBits, rd.cacheBitSize \div 8))
               = StreamBits(rd.buffer, rd.bitIndex, rd.cacheNumBits, rd.cacheBitSize \div 8)

---------------------------------------------------------------------------
(* Decoding a var-integer from the start of a byte sequence: the sequence is  *)
(* either given byte by byte or produced by writeVarInt32                     *)

\* the byte sequences given to the reader: of one, two and five bytes
ProbeSequences ==
    {<<a>> : a \in {0, 1, 63, 64, 127, 128, 129, 192, 255}}
    \cup {<<a, b>> : a \in {64, 192, 129, 255}, b \in {0, 64, 255}}
    \cup {<<a, b, c, d, e>> : a \in {128, 129, 135, 136, 144, 192, 255}, b \in {128, 255},
                              c \in {128, 255}, d \in {128, 255}, e \in {0, 127, 255}}

\* writeVarInt32(data) into a zeroed span of exactly bitSizeOfVarInt32(data) bits
encodeVarInt32(data) ==
    LET sized(size) == writeVarFamily(BitStreamWriter([k \in 1..(size \div 8) |-> 0], size),
                                      "varint32", data).wr
    IN  sized(bitSizeOfVarNum("varint32", data).value)

InitDecode ==
    /\ \/ /\ wr = <<>>
          /\ items = <<>>
          /\ \E bytes \in ProbeSequences, W \in {32, 64} :
                 rd = ReaderContext(bytes, 8 * Len(bytes), W, TRUE)
       \/ \E data \in {BvOfNat(0, 4), BvNeg(BvOfNat(1, 4)), BvOfNat(64, 4),
                       BvNeg(BvOfNat(64, 4)), BvOfNat(63, 4), BvOfNat(8192, 4),
                       BvNeg(BvOfNat(1048576, 4))},
             W \in {32, 64} :
              /\ wr = encodeVarInt32(data)
              /\ items = <<[kind |-> "varint32", numBits |-> 0, value |-> data]>>
              /\ rd = ReaderContext(wr.buffer, wr.bitIndex, W, TRUE)
    /\ res = noResult
    /\ phase = "decode"
    /\ outs = <<>>

\* the single read of the decoding program: one of readVarInt16 .. readVarSize
Decode ==
    \E kind \in {"varint16", "varint32", "varint64", "varuint16", "varuint32",
                 "varuint64", "varint", "varuint", "varsize"} :
        /\ res.op = "none"
        /\ Called(kind, 0, readVarNum(kind, rd))

NextDecode == Decode

SpecDecode == InitDecode /\ [][NextDecode]_vars

\* C9: for every well-formed varsize encoding whose decoded value exceeds
\* 2^31 - 1, readVarSize returns OutOfRange and never a value.  A well-formed
\* five byte encoding carries the continuation bit in bytes 1 to 4 and denotes
\* the number made of 7 payload bits of each of bytes 1 to 4 and 8 of byte 5.
C9_VarSizeAboveMaxIsOutOfRange ==
    LET bytes == res.pre.buffer
        denoted == BvAdd(BvShl(BvOfNat(bytes[1] % 128, 8), 29),
                         BvOfNat((bytes[2] % 128) * 4194304 + (bytes[3] % 128) * 32768
                                 + (bytes[4] % 128) * 256 + bytes[5], 8))
    IN  (/\ res.op = "varsize"
         /\ Len(bytes) = 5
         /\ \A i \in 1..4 : bytes[i] >= 128
         /\ BvGt(denoted, BvCast(VARSIZE_MAX_VALUE, 8)))
        => res.err = ErrorCode.OutOfRange

\* C10 as stated: varint32 0 is the byte 0x00, -1 is 0x81, 64 is 0xC0 0x40, and
\* readVarInt32 over these sequences returns 0, -1 and 64.
C10_LayoutAsStated ==
    /\ (items # <<>> /\ items[1].value = BvOfNat(0, 4)) => wr.buffer = <<0>>
    /\ (items # <<>> /\ items[1].value = BvNeg(BvOfNat(1, 4))) => wr.buffer = <<129>>
    /\ (items # <<>> /\ items[1].value = BvOfNat(64, 4)) => wr.buffer = <<192, 64>>
    /\ res.op = "varint32"
       => /\ res.pre.buffer = <<0>>
             => (res.err = ErrorCode.Success /\ res.value = BvOfNat(0, 4))
          /\ res.pre.buffer = <<129>>
             => (res.err = ErrorCode.Success /\ res.value = BvNeg(BvOfNat(1, 4)))
          /\ res.pre.buffer = <<192, 64>>
             => (res.err = ErrorCode.Success /\ res.value = BvOfNat(64, 4))

\* C10, amended: varint32 0 is the byte 0x00, -1 is 0x81, 64 is 0x40 0x40 (no
\* sign bit, continuation bit, payload 0; then payload 64), and readVarInt32
\* over these sequences returns 0, -1 and 64; 0xC0 0x40 decodes to -64.
C10_Layout ==
    /\ (items # <<>> /\ items[1].value = BvOfNat(0, 4)) => wr.buffer = <<0>>
    /\ (items # <<>> /\ items[1].value = BvNeg(BvOfNat(1, 4))) => wr.buffer = <<129>>
    /\ (items # <<>> /\ items[1].value = BvOfNat(64, 4)) => wr.buffer = <<64, 64>>
    /\ res.op = "varint32"
       => /\ res.pre.buffer = <<0>>
             => (res.err = ErrorCode.Success /\ res.value = BvOfNat(0, 4))
          /\ res.pre.buffer = <<129>>
             => (res.err = ErrorCode.Success /\ res.value = BvNeg(BvOfNat(1, 4)))
          /\ res.pre.buffer = <<64, 64>>
             => (res.err = ErrorCode.Success /\ res.value = BvOfNat(64, 4))
          /\ res.pre.buffer = <<192, 64>>
             => (res.err = ErrorCode.Success /\ res.value = BvNeg(BvOfNat(64, 4)))

\* 64 was encoded by the writer and decoded again
C10_Witness ==
    /\ items # <<>>
    /\ items[1].value = BvOfNat(64, 4)
    /\ res.op = "varint32"
    /\ res.value = BvOfNat(64, 4)
    /\ rd.bitIndex = 16

---------------------------------------------------------------------------
(* The generated types of the mini schema: MostOuter { uint8 numOfInner;     *)
(* Outer(numOfInner) outer; }, Outer { Inner inner[numOfInner]; },           *)
(* Inner { string key; uint8 value; }.  Their implementation files are not   *)
(* part of the sources; they are modelled from MostOuter.h, from the design  *)
(* document and from the way MiniTest.cpp uses them.  A string is a sequence *)
(* of bytes.                                                                 *)

\* a bitSizeOfString that leaves out the length
bitSizeOfStringNoLength(stringValue) ==
    [err |-> ErrorCode.Success, value |-> Len(stringValue) * 8]

\* bitSizeOfString
bitSizeOfString(stringValue) ==
    LET sized(sizeResult) ==
            IF sizeResult.err # ErrorCode.Success THEN sizeResult
            ELSE [err |-> ErrorCode.Success,
                  value |-> sizeResult.value + Len(stringValue) * 8]
    IN  sized(bitSizeOfVarNum("varsize", BvOfNat(Len(stringValue), 4)))

\* BitStreamWriter::writeString: the length as a varsize, then the bytes
writeString(out, data) ==
    LET bytes(lenResult) ==
            IF lenResult.err # ErrorCode.Success THEN lenResult
            ELSE writeUnsignedBits(lenResult.wr, data, 8 * Len(data))
    IN  bytes(writeVarFamily(out, "varsize", BvOfNat(Len(data), 4)))

\* the loop of readBytes and readString at a position that is not byte aligned:
\* readByte until remaining bytes were pushed to value; an error ends the read
\* and the bytes pushed so far are dropped
RECURSIVE readUnalignedBytes(_, _, _)
readUnalignedBytes(ctx, value, remaining) ==
    IF remaining = 0 THEN Result(ctx, ErrorCode.Success, value)
    ELSE The({IF byteResult.err # ErrorCode.Success
              THEN Result(byteResult.ctx, byteResult.err, <<>>)
              ELSE readUnalignedBytes(byteResult.ctx, Append(value, byteResult.value[1]),
                                      remaining - 1) :
              byteResult \in {readByte(ctx)}})

\* the byte aligned branch of readBytes and readString: setBitPosition, then
\* the len bytes of the span from the begin position on.  Bytes beyond the
\* span cannot be reached: setBitPosition has checked the end position.
readAlignedBytes(ctx, len) ==
    The({IF setPosResult.err # ErrorCode.Success
         THEN Result(setPosResult.ctx, setPosResult.err, <<>>)
         ELSE Result(setPosResult.ctx, ErrorCode.Success,
                     SubSeq(ctx.buffer, (ctx.bitIndex \div 8) + 1,
                            (ctx.bitIndex \div 8) + len)) :
         setPosResult \in {setBitPosition(ctx, ctx.bitIndex + len * 8)}})

\* readBytes that takes the byte aligned branch at every position
readBytesAlignedOnly(in) ==
    The({IF lenResult.err # ErrorCode.Success
         THEN Result(lenResult.ctx, lenResult.err, <<>>)
         ELSE readAlignedBytes(lenResult.ctx, BvToNat(lenResult.value)) :
         lenResult \in {readVarSize(in)}})

\* BitStreamReader::readBytes
readBytes(in) ==
    The({IF lenResult.err # ErrorCode.Success
         THEN Result(lenResult.ctx, lenResult.err, <<>>)
         ELSE IF lenResult.ctx.bitIndex % 8 # 0
         THEN readUnalignedBytes(lenResult.ctx, <<>>, BvToNat(lenResult.value))
         ELSE readAlignedBytes(lenResult.ctx, BvToNat(lenResult.value)) :
         lenResult \in {readVarSize(in)}})

\* BitStreamReader::readString; a string is the sequence of its bytes
readString(in) ==
    The({IF lenResult.err # ErrorCode.Success
         THEN Result(lenResult.ctx, lenResult.err, <<>>)
         ELSE IF lenResult.ctx.bitIndex % 8 # 0
         THEN readUnalignedBytes(lenResult.ctx, <<>>, BvToNat(lenResult.value))
         ELSE readAlignedBytes(lenResult.ctx, BvToNat(lenResult.value)) :
         lenResult \in {readVarSize(in)}})

\* the loop of readBitBuffer at a position that is not byte aligned: readBits(8)
\* for every whole byte
RECURSIVE readBitBufferBytes(_, _, _)
readBitBufferBytes(ctx, value, remaining) ==
    IF remaining = 0 THEN Result(ctx, ErrorCode.Success, value)
    ELSE The({IF byteResult.err # ErrorCode.Success
              THEN Result(byteResult.ctx, byteResult.err, <<>>)
              ELSE readBitBufferBytes(byteResult.ctx,
                                      Append(value, BvCast(byteResult.value, 1)[1]),
                                      remaining - 1) :
              byteResult \in {readBits(ctx, 8)}})

\* the end of readBitBuffer: the numRestBits bits after the whole bytes, stored
\* in the high bits of one more byte
readBitBufferRest(bytesResult, bitSize, numRestBits) ==
    IF bytesResult.err # ErrorCode.Success THEN bytesResult
    ELSE IF numRestBits = 0
    THEN Result(bytesResult.ctx, ErrorCode.Success,
                [bitSize |-> bitSize, buffer |-> bytesResult.value])
    ELSE The({IF bitsResult.err # ErrorCode.Success
              THEN Result(bitsResult.ctx, bitsResult.err, <<>>)
              ELSE Result(bitsResult.ctx, ErrorCode.Success,
                          [bitSize |-> bitSize,
                           buffer |-> Append(bytesResult.value,
                                             BvCast(BvShl(bitsResult.value, 8 - numRestBits),
                                                    1)[1])]) :
              bitsResult \in {readBits(bytesResult.ctx, numRestBits)}})

\* BitStreamReader::readBitBuffer: the bit size and the bytes of the bit buffer
readBitBuffer(in) ==
    The({IF sizeResult.err # ErrorCode.Success
         THEN Result(sizeResult.ctx, sizeResult.err, <<>>)
         ELSE The({readBitBufferRest(
                       IF sizeResult.ctx.bitIndex % 8 # 0
                       THEN readBitBufferBytes(sizeResult.ctx, <<>>, bitSize \div 8)
                       ELSE readAlignedBytes(sizeResult.ctx, bitSize \div 8),
                       bitSize, (bitSize - (bitSize \div 8) * 8) % 256) :
                   bitSize \in {BvToNat(sizeResult.value)}}) :
         sizeResult \in {readVarSize(in)}})

\* Inner::bitSizeOf: the key, then the 8 bits of the value
Inner_bitSizeOf(inner) ==
    LET sized(keyResult) ==
            IF keyResult.err # ErrorCode.Success THEN keyResult
            ELSE [err |-> ErrorCode.Success, value |-> keyResult.value + 8]
    IN  sized(bitSizeOfString(inner.key))

\* Inner::write
Inner_write(out, inner) ==
    LET value(keyResult) ==
            IF keyResult.err # ErrorCode.Success THEN keyResult
            ELSE writeBits(keyResult.wr, BvCast(inner.value, 4), 8)
    IN  value(writeString(out, inner.key))

\* the read constructor of Inner
Inner_read(in) ==
    The({IF keyResult.err # ErrorCode.Success THEN keyResult
         ELSE The({IF valueResult.err # ErrorCode.Success
                   THEN Result(valueResult.ctx, valueResult.err, <<>>)
                   ELSE Result(valueResult.ctx, ErrorCode.Success,
                               [key |-> keyResult.value,
                                value |-> BvCast(valueResult.value, 1)]) :
                   valueResult \in {readBits(keyResult.ctx, 8)}}) :
         keyResult \in {readString(in)}})
---------------------------------------------------------------------------
(* Element codecs.  ArrayTraits.h is not part of the sources; a codec is     *)
(* modelled as the pair of writer and reader operations of one scalar type,  *)
(* as the design document's family table pairs them.  A codec is a record    *)
(* [kind, numBits]; kind is "bits", "bits64", "signedBits", "signedBits64"   *)
(* (fixed width numBits), "bool" (held as one byte, 0 or 1), a var-integer    *)
(* family, or "Inner" (the compound element of Outer).                       *)

ArrayTraits_bitSizeOf(traits, element) ==
    IF traits.kind \in {"bits", "bits64", "signedBits", "signedBits64"}
    THEN [err |-> ErrorCode.Success, value |-> traits.numBits]
    ELSE IF traits.kind = "bool" THEN [err |-> ErrorCode.Success, value |-> 1]
    ELSE IF traits.kind = "Inner" THEN Inner_bitSizeOf(element)
    ELSE bitSizeOfVarNum(traits.kind, element)

ArrayTraits_write(w, traits, element) ==
    IF traits.kind \in {"bits", "signedBits"} THEN writeBits(w, element, traits.numBits)
    ELSE IF traits.kind \in {"bits64", "signedBits64"}
         THEN writeBits64(w, element, traits.numBits)
    ELSE IF traits.kind = "bool" THEN writeBool(w, element # <<0>>)
    ELSE IF traits.kind = "Inner" THEN Inner_write(w, element)
    ELSE writeVarFamily(w, traits.kind, element)

ArrayTraits_read(ctx, traits) ==
    CASE traits.kind = "bits" -> readBits(ctx, traits.numBits)
      [] traits.kind = "bits64" -> readBits64(ctx, traits.numBits)
      [] traits.kind = "signedBits" -> readSignedBits(ctx, traits.numBits)
      [] traits.kind = "signedBits64" -> readSignedBits64(ctx, traits.numBits)
      [] traits.kind = "bool" ->
            [readBool(ctx) EXCEPT !.value = IF @ THEN <<1>> ELSE <<0>>]
      [] traits.kind = "Inner" -> Inner_read(ctx)
      [] OTHER -> readVarNum(traits.kind, ctx)

---------------------------------------------------------------------------
(* A program that writes a sequence of scalars, then constructs a reader     *)
(* over the produced bytes and issues the matching reads in the same order   *)

\* the most scalars the program writes
MaxItems == 2

\* the size in bytes of the span the writer is created over
WriterBytes == 12

\* the scalars the program chooses from: codec and a value valid for it
ScalarItems ==
    {[traits |-> [kind |-> "bits", numBits |-> 1], value |-> BvOfNat(1, 4)],
     [traits |-> [kind |-> "bits", numBits |-> 13], value |-> BvOfNat(5555, 4)],
     [traits |-> [kind |-> "bits", numBits |-> 32], value |-> <<255, 255, 255, 255>>],
     [traits |-> [kind |-> "bits64", numBits |-> 33], value |-> <<0, 0, 0, 1, 0, 0, 0, 5>>],
     [traits |-> [kind |-> "signedBits", numBits |-> 5], value |-> BvNeg(BvOfNat(16, 4))],
     [traits |-> [kind |-> "signedBits64", numBits |-> 33], value |-> BvNeg(BvOfNat(1, 8))],
     [traits |-> [kind |-> "signedBits64", numBits |-> 64],
      value |-> <<128, 0, 0, 0, 0, 0, 0, 0>>],
     [traits |-> [kind |-> "bool", numBits |-> 1], value |-> <<1>>],
     [traits |-> [kind |-> "varint16", numBits |-> 0], value |-> <<255, 255>>],
     [traits |-> [kind |-> "varint16", numBits |-> 0], value |-> <<63, 255>>],
     [traits |-> [kind |-> "varint32", numBits |-> 0], value |-> BvNeg(BvOfNat(64, 4))],
     [traits |-> [kind |-> "varint64", numBits |-> 0],
      value |-> <<0, 255, 255, 255, 255, 255, 255, 255>>],
     [traits |-> [kind |-> "varint64", numBits |-> 0], value |-> BvNeg(BvOfNat(1, 8))],
     [traits |-> [kind |-> "varuint16", numBits |-> 0], value |-> <<0, 128>>],
     [traits |-> [kind |-> "varuint16", numBits |-> 0], value |-> <<127, 255>>],
     [traits |-> [kind |-> "varuint32", numBits |-> 0], value |-> <<31, 255, 255, 255>>],
     [traits |-> [kind |-> "varuint64", numBits |-> 0],
      value |-> <<1, 255, 255, 255, 255, 255, 255, 255>>],
     [traits |-> [kind |-> "varint", numBits |-> 0], value |-> <<128, 0, 0, 0, 0, 0, 0, 0>>],
     [traits |-> [kind |-> "varint", numBits |-> 0],
      value |-> <<127, 255, 255, 255, 255, 255, 255, 255>>],
     [traits |-> [kind |-> "varuint", numBits |-> 0],
      value |-> <<255, 255, 255, 255, 255, 255, 255, 255>>],
     [traits |-> [kind |-> "varsize", numBits |-> 0], value |-> <<127, 255, 255, 255>>],
     [traits |-> [kind |-> "varsize", numBits |-> 0], value |-> BvOfNat(16384, 4)]}

InitCodec ==
    /\ wr = BitStreamWriter([k \in 1..WriterBytes |-> 0], 8 * WriterBytes)
    /\ items = <<>>
    /\ rd = <<>>
    /\ res = noResult
    /\ phase = "write"
    /\ outs = <<>>

\* one write of the program; a failed write ends it
WriteScalar ==
    /\ phase = "write"
    /\ Len(items) < MaxItems
    /\ \E item \in ScalarItems :
           LET written(r) ==
                   /\ wr' = r.wr
                   /\ res' = [op |-> "write", arg |-> item, err |-> r.err, value |-> <<>>,
                              pre |-> <<>>]
                   /\ IF r.err = ErrorCode.Success
                      THEN items' = Append(items, item) /\ phase' = phase
                      ELSE items' = items /\ phase' = "failed"
           IN  written(ArrayTraits_write(wr, item.traits, item.value))
    /\ UNCHANGED <<rd, outs>>

\* the reader is constructed over the writer's span with the bit size written
CreateReader ==
    /\ phase = "write"
    /\ \E W \in {32, 64}, wraps \in BOOLEAN :
           /\ W = 64 => wraps
           /\ rd' = ReaderContext(wr.buffer, wr.bitIndex, W, wraps)
    /\ phase' = "read"
    /\ UNCHANGED <<res, wr, items, outs>>

\* the read matching the next written scalar
ReadScalar ==
    /\ phase = "read"
    /\ Len(outs) < Len(items)
    /\ LET item == items[Len(outs) + 1]
           returned(r) ==
               /\ rd' = r.ctx
               /\ res' = [op |-> "read", arg |-> item, err |-> r.err, value |-> r.value,
                          pre |-> rd]
               /\ outs' = Append(outs, [err |-> r.err, value |-> r.value,
                                        consumed |-> r.ctx.bitIndex - rd.bitIndex])
       IN  returned(ArrayTraits_read(rd, item.traits))
    /\ UNCHANGED <<wr, items, phase>>

NextCodec ==
    \/ WriteScalar
    \/ CreateReader
    \/ ReadScalar

SpecCodec == InitCodec /\ [][NextCodec]_vars

\* C1: after any sequence of scalar writes that all succeeded, the matching
\* reads in the same order return exactly the written values in that order, and
\* each read advances the reader by exactly the bit size the corresponding
\* bitSizeOf function predicts for the value (the width for the fixed-width
\* fields, 1 for bool, bitSizeOfVarInt16 .. bitSizeOfVarSize for the families).
C1_ScalarRoundTrip ==
    \A i \in 1..Len(outs) :
        /\ outs[i].err = ErrorCode.Success
        /\ outs[i].value = items[i].value
        /\ outs[i].consumed = ArrayTraits_bitSizeOf(items[i].traits, items[i].value).value

\* a signed var-integer was read back at an unaligned position after a 13 bit field
C1_Witness ==
    /\ Len(outs) = 2
    /\ items[1].traits = [kind |-> "bits", numBits |-> 13]
    /\ items[2].traits.kind = "varint32"
    /\ outs[2].value = BvNeg(BvOfNat(64, 4))
    /\ outs[2].consumed = 16
    /\ rd.bitIndex = 29

---------------------------------------------------------------------------
(* DeltaContext.  An element is a byte vector of its C++ type; its codec     *)
(* says whether the type is signed.                                          *)

MAX_BIT_NUMBER_BITS == 6
MAX_BIT_NUMBER_LIMIT == 62

\* static_cast<uint64_t>(element)
elementAsUInt64(traits, element) ==
    IF traits.kind \in {"signedBits", "signedBits64", "varint16", "varint32", "varint64",
                        "varint"}
    THEN BvSignCast(element, 8)
    ELSE BvCast(element, 8)

\* a default constructed DeltaContext; the three flags of m_flags are kept as
\* three booleans
DeltaContext ==
    [previousElement |-> BvZero(8), maxBitNumber |-> 0, INIT_STARTED_FLAG |-> FALSE,
     IS_PACKED_FLAG |-> FALSE, PROCESSING_STARTED_FLAG |-> FALSE,
     firstElementBitSize |-> 0, numElements |-> 0, unpackedBitSize |-> 0]

\* absDeltaBitLength: the number of one bit right shifts that bring absDelta to
\* zero, which is eight for each byte below the highest nonzero byte plus the
\* shifts that bring that byte to zero
absDeltaBitLength(absDelta) ==
    LET shifts[n \in 0..255] == IF n = 0 THEN 0 ELSE 1 + shifts[n \div 2]
        length(top) == 8 * (Len(absDelta) - top) + shifts[absDelta[top]]
    IN  IF BvIsZero(absDelta) THEN 0
        ELSE length(CHOOSE i \in 1..Len(absDelta) :
                        absDelta[i] # 0 /\ \A j \in 1..(i - 1) : absDelta[j] = 0)

\* calcBitLength<T>: lhs > rhs is compared in T
calcBitLength(traits, lhs, rhs) ==
    LET \* on sign extended values the signed order is the unsigned order with
        \* the sign bit flipped
        gt(l, r) == IF (l[1] >= 128) # (r[1] >= 128) THEN l[1] < 128 ELSE BvGt(l, r)
        absDelta(l, r) == IF gt(l, r) THEN BvAdd(l, BvNeg(r)) ELSE BvAdd(r, BvNeg(l))
    IN  absDeltaBitLength(absDelta(elementAsUInt64(traits, lhs),
                                   elementAsUInt64(traits, rhs)))

\* DeltaContext::init without the test of m_maxBitNumber against the limit
DeltaContext_initNoLimit(context, traits, element) ==
    LET delta(c, maxBitNumber) ==
            [c EXCEPT !.IS_PACKED_FLAG = ~(maxBitNumber > context.maxBitNumber
                                           /\ maxBitNumber > MAX_BIT_NUMBER_LIMIT),
                      !.maxBitNumber = IF maxBitNumber > @ THEN maxBitNumber ELSE @,
                      !.previousElement = elementAsUInt64(traits, element)]
        counted(c) ==
            IF ~context.INIT_STARTED_FLAG
            THEN [c EXCEPT !.INIT_STARTED_FLAG = TRUE,
                           !.previousElement = elementAsUInt64(traits, element),
                           !.firstElementBitSize = c.unpackedBitSize % 256]
            ELSE delta(c, calcBitLength(traits, element,
                                        BvCast(context.previousElement, Len(element))))
    IN  counted([context EXCEPT
                     !.numElements = @ + 1,
                     !.unpackedBitSize = @ + ArrayTraits_bitSizeOf(traits, element).value])

DeltaContext_init(context, traits, element) ==
    LET delta(c, maxBitNumber) ==
            [c EXCEPT !.IS_PACKED_FLAG = ~(maxBitNumber > context.maxBitNumber
                                           /\ maxBitNumber > MAX_BIT_NUMBER_LIMIT),
                      !.maxBitNumber = IF maxBitNumber > @ THEN maxBitNumber ELSE @,
                      !.previousElement = elementAsUInt64(traits, element)]
        counted(c) ==
            IF ~context.INIT_STARTED_FLAG
            THEN [c EXCEPT !.INIT_STARTED_FLAG = TRUE,
                           !.previousElement = elementAsUInt64(traits, element),
                           !.firstElementBitSize = c.unpackedBitSize % 256]
            ELSE IF context.maxBitNumber <= MAX_BIT_NUMBER_LIMIT
            THEN delta(c, calcBitLength(traits, element,
                                        BvCast(context.previousElement, Len(element))))
            ELSE c
    IN  counted([context EXCEPT
                     !.numElements = @ + 1,
                     !.unpackedBitSize = @ + ArrayTraits_bitSizeOf(traits, element).value])

\* finishInit that never rejects packing
finishInitKeep(context) == context

finishInit(context) ==
    LET deltaBitSize == context.maxBitNumber + (IF context.maxBitNumber > 0 THEN 1 ELSE 0)
        packedBitSizeWithDescriptor ==
            1 + MAX_BIT_NUMBER_BITS + context.firstElementBitSize
            + (context.numElements - 1) * deltaBitSize
        unpackedBitSizeWithDescriptor == 1 + context.unpackedBitSize
    IN  IF context.IS_PACKED_FLAG
           /\ packedBitSizeWithDescriptor >= unpackedBitSizeWithDescriptor
        THEN [context EXCEPT !.IS_PACKED_FLAG = FALSE]
        ELSE context

\* DeltaContext::bitSizeOf that counts a delta as maxBitNumber bits
DeltaContext_bitSizeOfNoSign(context, traits, element) ==
    LET first == ~context.PROCESSING_STARTED_FLAG
        \* bitSizeOfDescriptor on the first call, then bitSizeOfUnpacked
        unpacked(c) ==
            [context |-> c,
             value |-> (IF ~first THEN 0
                        ELSE IF c.IS_PACKED_FLAG THEN 1 + MAX_BIT_NUMBER_BITS ELSE 1)
                       + ArrayTraits_bitSizeOf(traits, element).value]
    IN  IF first \/ ~context.IS_PACKED_FLAG
        THEN unpacked(IF first
                      THEN finishInit([context EXCEPT !.PROCESSING_STARTED_FLAG = TRUE])
                      ELSE context)
        ELSE [context |-> context, value |-> context.maxBitNumber]

\* DeltaContext::bitSizeOf with bitSizeOfDescriptor: the context after the call
\* and the size returned
DeltaContext_bitSizeOf(context, traits, element) ==
    LET first == ~context.PROCESSING_STARTED_FLAG
        \* bitSizeOfDescriptor on the first call, then bitSizeOfUnpacked
        unpacked(c) ==
            [context |-> c,
             value |-> (IF ~first THEN 0
                        ELSE IF c.IS_PACKED_FLAG THEN 1 + MAX_BIT_NUMBER_BITS ELSE 1)
                       + ArrayTraits_bitSizeOf(traits, element).value]
    IN  IF first \/ ~context.IS_PACKED_FLAG
        THEN unpacked(IF first
                      THEN finishInit([context EXCEPT !.PROCESSING_STARTED_FLAG = TRUE])
                      ELSE context)
        ELSE [context |-> context,
              value |-> context.maxBitNumber + (IF context.maxBitNumber > 0 THEN 1 ELSE 0)]

\* DeltaContext::readDescriptor: the context, the reader and the error code
readDescriptor(context, in) ==
    The({IF boolResult.err # ErrorCode.Success
         THEN [context |-> context, ctx |-> boolResult.ctx, err |-> boolResult.err]
         ELSE IF ~boolResult.value
         THEN [context |-> [context EXCEPT !.IS_PACKED_FLAG = FALSE],
               ctx |-> boolResult.ctx, err |-> ErrorCode.Success]
         ELSE The({IF bitsResult.err # ErrorCode.Success
                   THEN [context |-> [context EXCEPT !.IS_PACKED_FLAG = TRUE],
                         ctx |-> bitsResult.ctx, err |-> bitsResult.err]
                   ELSE [context |-> [context EXCEPT
                                          !.IS_PACKED_FLAG = TRUE,
                                          !.maxBitNumber = BvToNat(bitsResult.value) % 256],
                         ctx |-> bitsResult.ctx, err |-> ErrorCode.Success] :
                   bitsResult \in {readBits(boolResult.ctx, MAX_BIT_NUMBER_BITS)}}) :
         boolResult \in {readBool(in)}})

\* DeltaContext::read that adds the delta without sign extension
DeltaContext_readUnsignedDelta(context, in, traits, size) ==
    IF ~context.PROCESSING_STARTED_FLAG \/ ~context.IS_PACKED_FLAG
    THEN The({IF desc.err # ErrorCode.Success
              THEN [context |-> desc.context, ctx |-> desc.ctx, err |-> desc.err,
                    value |-> <<>>]
              ELSE \* readUnpacked
                   The({[context |-> IF elementResult.err = ErrorCode.Success
                                     THEN [desc.context EXCEPT !.previousElement =
                                               elementAsUInt64(traits, elementResult.value)]
                                     ELSE desc.context,
                         ctx |-> elementResult.ctx, err |-> elementResult.err,
                         value |-> elementResult.value] :
                        elementResult \in {ArrayTraits_read(desc.ctx, traits)}}) :
              desc \in {IF ~context.PROCESSING_STARTED_FLAG
                        THEN readDescriptor([context EXCEPT !.PROCESSING_STARTED_FLAG = TRUE],
                                            in)
                        ELSE [context |-> context, ctx |-> in, err |-> ErrorCode.Success]}})
    ELSE IF context.maxBitNumber = 0
    THEN [context |-> context, ctx |-> in, err |-> ErrorCode.Success,
          value |-> BvCast(context.previousElement, size)]
    ELSE The({IF deltaResult.err # ErrorCode.Success
              THEN [context |-> context, ctx |-> deltaResult.ctx, err |-> deltaResult.err,
                    value |-> <<>>]
              ELSE The({[context |-> [context EXCEPT !.previousElement = previousElement],
                         ctx |-> deltaResult.ctx, err |-> ErrorCode.Success,
                         value |-> BvCast(previousElement, size)] :
                        previousElement \in
                            {elementAsUInt64(traits,
                                 BvCast(BvAdd(context.previousElement, deltaResult.value),
                                        size))}}) :
              deltaResult \in {readBits64(in, (context.maxBitNumber + 1) % 256)}})

\* DeltaContext::read with readUnpacked: the context, the reader, the error code
\* and the element; size is sizeof(ElementType)
DeltaContext_read(context, in, traits, size) ==
    IF ~context.PROCESSING_STARTED_FLAG \/ ~context.IS_PACKED_FLAG
    THEN The({IF desc.err # ErrorCode.Success
              THEN [context |-> desc.context, ctx |-> desc.ctx, err |-> desc.err,
                    value |-> <<>>]
              ELSE \* readUnpacked
                   The({[context |-> IF elementResult.err = ErrorCode.Success
                                     THEN [desc.context EXCEPT !.previousElement =
                                               elementAsUInt64(traits, elementResult.value)]
                                     ELSE desc.context,
                         ctx |-> elementResult.ctx, err |-> elementResult.err,
                         value |-> elementResult.value] :
                        elementResult \in {ArrayTraits_read(desc.ctx, traits)}}) :
              desc \in {IF ~context.PROCESSING_STARTED_FLAG
                        THEN readDescriptor([context EXCEPT !.PROCESSING_STARTED_FLAG = TRUE],
                                            in)
                        ELSE [context |-> context, ctx |-> in, err |-> ErrorCode.Success]}})
    ELSE IF context.maxBitNumber = 0
    THEN [context |-> context, ctx |-> in, err |-> ErrorCode.Success,
          value |-> BvCast(context.previousElement, size)]
    ELSE The({IF deltaResult.err # ErrorCode.Success
              THEN [context |-> context, ctx |-> deltaResult.ctx, err |-> deltaResult.err,
                    value |-> <<>>]
              ELSE The({[context |-> [context EXCEPT !.previousElement = previousElement],
                         ctx |-> deltaResult.ctx, err |-> ErrorCode.Success,
                         value |-> BvCast(previousElement, size)] :
                        previousElement \in
                            {elementAsUInt64(traits,
                                 BvCast(BvAdd(context.previousElement, deltaResult.value),
                                        size))}}) :
              deltaResult \in {readSignedBits64(in, (context.maxBitNumber + 1) % 256)}})

\* writeDescriptor that emits nothing
writeDescriptorNone(context, out) == WResult(out, ErrorCode.Success)

\* DeltaContext::writeDescriptor
writeDescriptor(context, out) ==
    LET flag(boolResult) ==
            IF boolResult.err # ErrorCode.Success \/ ~context.IS_PACKED_FLAG THEN boolResult
            ELSE writeBits(boolResult.wr, BvOfNat(context.maxBitNumber, 4),
                           MAX_BIT_NUMBER_BITS)
    IN  flag(writeBool(out, context.IS_PACKED_FLAG))

\* DeltaContext::write with writeUnpacked and calcUncheckedDelta: the context,
\* the writer and the error code
DeltaContext_write(context, out, traits, element) ==
    LET \* writeUnpacked on the context c and the writer w
        unpacked(c, unpackedResult) ==
            [context |-> [c EXCEPT !.previousElement = elementAsUInt64(traits, element)],
             wr |-> unpackedResult.wr, err |-> unpackedResult.err]
        \* after writeDescriptor on the first call, else as the writer is
        described(c, descResult) ==
            IF descResult.err # ErrorCode.Success
            THEN [context |-> c, wr |-> descResult.wr, err |-> descResult.err]
            ELSE unpacked(c, ArrayTraits_write(descResult.wr, traits, element))
        finished(c) ==
            described(c, IF ~context.PROCESSING_STARTED_FLAG THEN writeDescriptor(c, out)
                         ELSE WResult(out, ErrorCode.Success))
        written(writeResult) ==
            IF writeResult.err # ErrorCode.Success
            THEN [context |-> context, wr |-> writeResult.wr, err |-> writeResult.err]
            ELSE [context |-> [context EXCEPT !.previousElement =
                                                  elementAsUInt64(traits, element)],
                  wr |-> writeResult.wr, err |-> ErrorCode.Success]
    IN  IF ~context.PROCESSING_STARTED_FLAG \/ ~context.IS_PACKED_FLAG
        THEN finished(IF ~context.PROCESSING_STARTED_FLAG
                      THEN finishInit([context EXCEPT !.PROCESSING_STARTED_FLAG = TRUE])
                      ELSE context)
        ELSE IF context.maxBitNumber = 0
        THEN [context |-> context, wr |-> out, err |-> ErrorCode.Success]
        ELSE written(writeBits64(out, BvAdd(elementAsUInt64(traits, element),
                                            BvNeg(context.previousElement)),
                                 (context.maxBitNumber + 1) % 256))

---------------------------------------------------------------------------
(* Array.  An array is a record [arrayType, packed, traits, rawArray].  The  *)
(* owner is a record [offsets]: the byte offsets its fields hold for the     *)
(* elements of the array, empty when the array expressions have no offsets.  *)

\* sizeof(ElementType) of a codec
elementSize(traits) ==
    CASE traits.kind \in {"bits", "signedBits", "varint32", "varuint32", "varsize"} -> 4
      [] traits.kind \in {"varint16", "varuint16"} -> 2
      [] traits.kind = "bool" -> 1
      [] OTHER -> 8

\* addBitSizeOfArrayLength: the error code and the bit position after the length
addBitSizeOfArrayLength(arrayType, bitPosition, arrayLength) ==
    LET added(sizeResult) ==
            IF sizeResult.err # ErrorCode.Success
            THEN [err |-> sizeResult.err, value |-> bitPosition]
            ELSE [err |-> ErrorCode.Success, value |-> bitPosition + sizeResult.value]
    IN  IF arrayType \notin {"AUTO", "ALIGNED_AUTO"}
        THEN [err |-> ErrorCode.Success, value |-> bitPosition]
        ELSE added(bitSizeOfVarNum("varsize", BvOfNat(arrayLength, 4)))

\* alignBitPosition that leaves the position as it is
alignBitPositionNone(arrayType, bitPosition) == bitPosition

\* alignBitPosition: alignTo(8, bitPosition) for the aligned array types
alignBitPosition(arrayType, bitPosition) ==
    IF arrayType \in {"ALIGNED", "ALIGNED_AUTO"} THEN ((bitPosition + 7) \div 8) * 8
    ELSE bitPosition

\* an owner of an array without offsets
NoOffsets == [offsets |-> <<>>]

\* detail::checkOffset: with array expressions that have checkOffset the hook
\* is called with the owner, the index and the byte offset; both overloads
\* return void, so nothing the hook finds comes back to the caller
checkOffset(owner, index, bitPosition) == [err |-> ErrorCode.Success]

\* alignAndCheckOffset on a reader
alignAndCheckOffset(arrayType, in, owner, index) ==
    IF arrayType \in {"ALIGNED", "ALIGNED_AUTO"}
    THEN The({IF alignResult.err # ErrorCode.Success THEN alignResult
              ELSE The({IF checkResult.err # ErrorCode.Success
                        THEN Result(alignResult.ctx, checkResult.err, <<>>)
                        ELSE Result(alignResult.ctx, ErrorCode.Success, <<>>) :
                        checkResult \in {checkOffset(owner, index,
                                                     alignResult.ctx.bitIndex \div 8)}}) :
              alignResult \in {alignTo(in, 8)}})
    ELSE Result(in, ErrorCode.Success, <<>>)

\* alignAndCheckOffset on a writer that writes no padding
alignAndCheckOffsetOutNone(arrayType, out) == WResult(out, ErrorCode.Success)

\* alignAndCheckOffset on a writer; BitStreamWriter::alignTo writes zero bits up
\* to the next multiple of the alignment
alignAndCheckOffsetOut(arrayType, out) ==
    IF arrayType \in {"ALIGNED", "ALIGNED_AUTO"}
    THEN writeBits64(out, BvZero(8), (8 - (out.bitIndex % 8)) % 8)
    ELSE WResult(out, ErrorCode.Success)

\* readArrayLength that counts a last partial element of an implicit array
readArrayLengthCeil(arrayType, traits, in, arrayLength) ==
    IF arrayType = "IMPLICIT" /\ ArrayTraits_bitSizeOf(traits, <<>>).value # 0
    THEN Result(in, ErrorCode.Success,
                (in.bufferBitSize - in.bitIndex + ArrayTraits_bitSizeOf(traits, <<>>).value - 1)
                    \div ArrayTraits_bitSizeOf(traits, <<>>).value)
    ELSE Result(in, ErrorCode.Success, arrayLength)

\* readArrayLength: Result<size_t>
readArrayLength(arrayType, traits, in, arrayLength) ==
    LET remainingBits == in.bufferBitSize - in.bitIndex
        auto(result) ==
            IF result.err # ErrorCode.Success THEN Result(result.ctx, result.err, 0)
            ELSE Result(result.ctx, ErrorCode.Success, BvToNat(result.value))
        implicit(elementBitSize) ==
            IF elementBitSize = 0 THEN Result(in, ErrorCode.DivisionByZero, 0)
            ELSE Result(in, ErrorCode.Success, remainingBits \div elementBitSize)
    IN  IF arrayType \in {"AUTO", "ALIGNED_AUTO"} THEN auto(readVarSize(in))
        ELSE IF arrayType = "IMPLICIT"
        THEN implicit(ArrayTraits_bitSizeOf(traits, <<>>).value)
        ELSE Result(in, ErrorCode.Success, arrayLength)

writeArrayLength(arrayType, out, arrayLength) ==
    IF arrayType \in {"AUTO", "ALIGNED_AUTO"}
    THEN writeVarFamily(out, "varsize", BvOfNat(arrayLength, 4))
    ELSE WResult(out, ErrorCode.Success)

\* constBitSizeOfElements that pads the last element as well
constBitSizeOfElementsPadded(arrayType, bitPosition, arrayLength, elementBitSize) ==
    IF arrayType \in {"ALIGNED", "ALIGNED_AUTO"}
    THEN ((bitPosition + 7) \div 8) * 8
         + arrayLength * (((elementBitSize + 7) \div 8) * 8) - bitPosition
    ELSE arrayLength * elementBitSize

constBitSizeOfElements(arrayType, bitPosition, arrayLength, elementBitSize) ==
    IF arrayType \in {"ALIGNED", "ALIGNED_AUTO"}
    THEN ((bitPosition + 7) \div 8) * 8 + elementBitSize
         + (arrayLength - 1) * (((elementBitSize + 7) \div 8) * 8) - bitPosition
    ELSE arrayLength * elementBitSize

\* bitSizeOfImpl, for codecs of constant bit size (the fixed-width ones and
\* bool) and for the others
bitSizeOfImpl(array, bitPosition) ==
    LET arrayLength == Len(array.rawArray)
        added(before, elementSizeResult) ==
            IF elementSizeResult.err # ErrorCode.Success THEN elementSizeResult
            ELSE [err |-> ErrorCode.Success,
                  value |-> alignBitPosition(array.arrayType, before.value)
                            + elementSizeResult.value]
        step(before, index) ==
            IF before.err # ErrorCode.Success THEN before
            ELSE added(before, ArrayTraits_bitSizeOf(array.traits, array.rawArray[index]))
        ended(endResult) ==
            IF endResult.err # ErrorCode.Success THEN endResult
            ELSE [err |-> ErrorCode.Success, value |-> endResult.value - bitPosition]
        loop(addResult) ==
            LET end[index \in 0..arrayLength] ==
                    IF index = 0 THEN addResult ELSE step(end[index - 1], index)
            IN  ended(end[arrayLength])
        const(addResult) ==
            [err |-> ErrorCode.Success,
             value |-> (IF arrayLength > 0
                        THEN addResult.value
                             + constBitSizeOfElements(
                                   array.arrayType, addResult.value, arrayLength,
                                   ArrayTraits_bitSizeOf(array.traits, <<>>).value)
                        ELSE addResult.value) - bitPosition]
        sized(addResult) ==
            IF addResult.err # ErrorCode.Success THEN addResult
            ELSE IF array.traits.kind \in {"bits", "bits64", "signedBits", "signedBits64",
                                           "bool"}
            THEN const(addResult)
            ELSE loop(addResult)
    IN  sized(addBitSizeOfArrayLength(array.arrayType, bitPosition, arrayLength))

\* an iteration of the loop of readImpl that, when the element fails, puts the
\* reader back and empties the vector
readImplStepRollback(arrayType, traits, owner, before) ==
    IF before.err # ErrorCode.Success THEN before
    ELSE The({IF alignResult.err # ErrorCode.Success
              THEN Result(before.ctx, alignResult.err, <<>>)
              ELSE The({IF readResult.err # ErrorCode.Success
                        THEN Result(before.ctx, readResult.err, <<>>)
                        ELSE Result(readResult.ctx, ErrorCode.Success,
                                    Append(before.value, readResult.value)) :
                        readResult \in {ArrayTraits_read(alignResult.ctx, traits)}}) :
              alignResult \in {alignAndCheckOffset(arrayType, before.ctx, owner,
                                                   Len(before.value))}})

\* one iteration of the loop of readImpl on what was read before
readImplStep(arrayType, traits, owner, before) ==
    IF before.err # ErrorCode.Success THEN before
    ELSE The({IF alignResult.err # ErrorCode.Success
              THEN Result(alignResult.ctx, alignResult.err, before.value)
              ELSE The({IF readResult.err # ErrorCode.Success
                        THEN Result(readResult.ctx, readResult.err, before.value)
                        ELSE Result(readResult.ctx, ErrorCode.Success,
                                    Append(before.value, readResult.value)) :
                        readResult \in {ArrayTraits_read(alignResult.ctx, traits)}}) :
              alignResult \in {alignAndCheckOffset(arrayType, before.ctx, owner,
                                                   Len(before.value))}})

\* readImpl: the reader, the error code and m_rawArray
readImpl(arrayType, traits, owner, in, arrayLength) ==
    The({IF lengthResult.err # ErrorCode.Success
         THEN Result(lengthResult.ctx, lengthResult.err, <<>>)
         ELSE LET read[index \in 0..lengthResult.value] ==
                      IF index = 0 THEN Result(lengthResult.ctx, ErrorCode.Success, <<>>)
                      ELSE readImplStep(arrayType, traits, owner, read[index - 1])
              IN  read[lengthResult.value] :
         lengthResult \in {readArrayLength(arrayType, traits, in, arrayLength)}})

writeImpl(array, out) ==
    LET arrayLength == Len(array.rawArray)
        aligned(alignResult, index) ==
            IF alignResult.err # ErrorCode.Success THEN alignResult
            ELSE ArrayTraits_write(alignResult.wr, array.traits, array.rawArray[index])
        step(before, index) ==
            IF before.err # ErrorCode.Success THEN before
            ELSE aligned(alignAndCheckOffsetOut(array.arrayType, before.wr), index)
        write[index \in 0..arrayLength] ==
            IF index = 0 THEN writeArrayLength(array.arrayType, out, arrayLength)
            ELSE step(write[index - 1], index)
    IN  write[arrayLength]

\* the loop of packedArrayTraitsInitContext calls over all elements
initContext(traits, rawArray) ==
    LET context[index \in 0..Len(rawArray)] ==
            IF index = 0 THEN DeltaContext
            ELSE DeltaContext_init(context[index - 1], traits, rawArray[index])
    IN  context[Len(rawArray)]

\* bitSizeOfPackedImpl: a size_t; the outcome of addBitSizeOfArrayLength is not
\* looked at
bitSizeOfPackedImpl(array, bitPosition) ==
    LET arrayLength == Len(array.rawArray)
        added(before, size) ==
            [context |-> size.context,
             value |-> alignBitPosition(array.arrayType, before.value) + size.value]
        step(before, index) ==
            added(before, DeltaContext_bitSizeOf(before.context, array.traits,
                                                 array.rawArray[index]))
        end[index \in 0..arrayLength] ==
            IF index = 0
            THEN [context |-> initContext(array.traits, array.rawArray),
                  value |-> addBitSizeOfArrayLength(array.arrayType, bitPosition,
                                                    arrayLength).value]
            ELSE step(end[index - 1], index)
    IN  end[arrayLength].value - bitPosition

\* one iteration of the loop of readPackedImpl on the context, the reader and
\* what was read before
readPackedImplStep(arrayType, traits, owner, before) ==
    IF before.err # ErrorCode.Success THEN before
    ELSE The({IF alignResult.err # ErrorCode.Success
              THEN [before EXCEPT !.ctx = alignResult.ctx, !.err = alignResult.err]
              ELSE The({IF readResult.err # ErrorCode.Success
                        THEN [readResult EXCEPT !.value = before.value]
                        ELSE [readResult EXCEPT
                                  !.value = Append(before.value, readResult.value)] :
                        readResult \in {DeltaContext_read(before.context, alignResult.ctx,
                                                          traits, elementSize(traits))}}) :
              alignResult \in {alignAndCheckOffset(arrayType, before.ctx, owner,
                                                   Len(before.value))}})

readPackedImpl(arrayType, traits, owner, in, arrayLength) ==
    The({IF lengthResult.err # ErrorCode.Success
         THEN Result(lengthResult.ctx, lengthResult.err, <<>>)
         ELSE LET read[index \in 0..lengthResult.value] ==
                      IF index = 0
                      THEN [context |-> DeltaContext, ctx |-> lengthResult.ctx,
                            err |-> ErrorCode.Success, value |-> <<>>]
                      ELSE readPackedImplStep(arrayType, traits, owner, read[index - 1])
              IN  The({Result(packedResult.ctx, packedResult.err, packedResult.value) :
                       packedResult \in {read[lengthResult.value]}}) :
         lengthResult \in {readArrayLength(arrayType, traits, in, arrayLength)}})

writePackedImpl(array, out) ==
    LET arrayLength == Len(array.rawArray)
        aligned(before, alignResult, index) ==
            IF alignResult.err # ErrorCode.Success
            THEN [before EXCEPT !.wr = alignResult.wr, !.err = alignResult.err]
            ELSE DeltaContext_write(before.context, alignResult.wr, array.traits,
                                    array.rawArray[index])
        step(before, index) ==
            IF before.err # ErrorCode.Success THEN before
            ELSE aligned(before, alignAndCheckOffsetOut(array.arrayType, before.wr), index)
        start(lengthResult) ==
            [context |-> initContext(array.traits, array.rawArray),
             wr |-> lengthResult.wr, err |-> lengthResult.err]
        write[index \in 0..arrayLength] ==
            IF index = 0 THEN start(writeArrayLength(array.arrayType, out, arrayLength))
            ELSE step(write[index - 1], index)
        done(writeResult) == WResult(writeResult.wr, writeResult.err)
    IN  done(write[arrayLength])

\* initializeOffsetsImpl: Result<size_t> with the end bit position; the element's
\* initializeOffsets returns the position after the element
initializeOffsetsImpl(array, bitPosition) ==
    LET arrayLength == Len(array.rawArray)
        added(before, offsetResult) ==
            IF offsetResult.err # ErrorCode.Success THEN offsetResult
            ELSE [err |-> ErrorCode.Success,
                  value |-> alignBitPosition(array.arrayType, before.value)
                            + offsetResult.value]
        step(before, index) ==
            IF before.err # ErrorCode.Success THEN before
            ELSE added(before, ArrayTraits_bitSizeOf(array.traits, array.rawArray[index]))
        end[index \in 0..arrayLength] ==
            IF index = 0
            THEN addBitSizeOfArrayLength(array.arrayType, bitPosition, arrayLength)
            ELSE step(end[index - 1], index)
    IN  end[arrayLength]

---------------------------------------------------------------------------
(* MostOuter { uint8 numOfInner; Outer(numOfInner) outer; } with             *)
(* Outer { Inner inner[numOfInner]; }.  The member functions are declared in *)
(* MostOuter.h; their bodies are not part of the sources and are modelled    *)
(* from the declarations and the design document: the fields in declared     *)
(* order, the array through the array engine with the length given by the    *)
(* parameter.                                                                *)

\* the array member of Outer
Outer_inner(outer) ==
    [arrayType |-> "NORMAL", packed |-> FALSE, traits |-> [kind |-> "Inner", numBits |-> 0],
     rawArray |-> outer.inner]

\* MostOuter::initializeOffsets: Result<size_t> with the end bit position
MostOuter_initializeOffsets(mostOuter, bitPosition) ==
    initializeOffsetsImpl(Outer_inner(mostOuter.m_outer_), bitPosition + 8)

\* MostOuter::write
MostOuter_write(out, mostOuter) ==
    LET outer(numResult) ==
            IF numResult.err # ErrorCode.Success THEN numResult
            ELSE writeImpl(Outer_inner(mostOuter.m_outer_), numResult.wr)
    IN  outer(writeBits(out, BvCast(mostOuter.m_numOfInner_, 4), 8))

\* MostOuter::create
MostOuter_create(in) ==
    LET made(numResult, outerResult) ==
            IF outerResult.err # ErrorCode.Success
            THEN Result(outerResult.ctx, outerResult.err, <<>>)
            ELSE Result(outerResult.ctx, ErrorCode.Success,
                        [m_numOfInner_ |-> BvCast(numResult.value, 1),
                         m_outer_ |-> [inner |-> outerResult.value]])
        outer(numResult) ==
            IF numResult.err # ErrorCode.Success
            THEN Result(numResult.ctx, numResult.err, <<>>)
            ELSE made(numResult,
                      readImpl("NORMAL", [kind |-> "Inner", numBits |-> 0], NoOffsets,
                               numResult.ctx,
                               BvToNat(numResult.value)))
    IN  outer(readBits(in, 8))

\* detail::serialize: the bit buffer is the span of the writer returned; the
\* value initializeOffsets succeeded with is taken as the bit size
serialize(object) ==
    LET sized(bitSize) ==
            MostOuter_write(
                BitStreamWriter([k \in 1..((bitSize + 7) \div 8) |-> 0], bitSize), object)
    IN  sized(MostOuter_initializeOffsets(object, 0).value)

\* deserialize, in a build with the given cache width
deserialize(buffer, bitSize, cacheBitSize, shiftWraps) ==
    MostOuter_create(ReaderContext(buffer, bitSize, cacheBitSize, shiftWraps))

---------------------------------------------------------------------------
(* A program that takes one value (a scalar, an array or a MostOuter),       *)
(* measures it at a start position, writes it into a buffer of exactly the   *)
(* measured size and reads it back; a MostOuter goes through serialize and   *)
(* deserialize.                                                              *)

\* the most elements of an array
MaxElements == 3

\* the most Inner elements of a MostOuter
MaxInner == 2

\* the length of the long key
LongKeyLen == 100

StartPositions == {0, 3}

\* the element codecs of the arrays, each with the element values drawn from
ElementCodecs ==
    {[traits |-> [kind |-> "bits", numBits |-> 6],
      values |-> {BvOfNat(0, 4), BvOfNat(1, 4), BvOfNat(63, 4)}],
     [traits |-> [kind |-> "bits", numBits |-> 3],
      values |-> {BvOfNat(1, 4), BvOfNat(5, 4), BvOfNat(7, 4)}],
     [traits |-> [kind |-> "signedBits64", numBits |-> 64],
      values |-> {BvZero(8), <<0, 0, 1, 0, 0, 0, 0, 0>>, <<128, 0, 0, 0, 0, 0, 0, 0>>}],
     [traits |-> [kind |-> "varuint16", numBits |-> 0],
      values |-> {<<0, 127>>, <<0, 128>>, <<127, 255>>}]}

SeqsUpTo(S, n) == UNION {[1..k -> S] : k \in 0..n}

ArrayValues ==
    UNION {{[shape |-> "array", arrayType |-> t[1], packed |-> t[2], traits |-> c.traits,
             rawArray |-> xs] :
                t \in {<<"NORMAL", FALSE>>, <<"NORMAL", TRUE>>, <<"AUTO", FALSE>>,
                       <<"AUTO", TRUE>>, <<"ALIGNED", FALSE>>, <<"ALIGNED", TRUE>>,
                       <<"ALIGNED_AUTO", FALSE>>, <<"ALIGNED_AUTO", TRUE>>,
                       <<"IMPLICIT", FALSE>>},
                xs \in SeqsUpTo(c.values, MaxElements)} : c \in ElementCodecs}

InnerValues ==
    {[key |-> <<>>, value |-> <<0>>], [key |-> <<107, 48>>, value |-> <<255>>],
     [key |-> [i \in 1..LongKeyLen |-> 120], value |-> <<123>>]}

Values ==
    {[shape |-> "scalar", traits |-> item.traits, value |-> item.value] : item \in ScalarItems}
    \cup {a \in ArrayValues :
              a.arrayType = "IMPLICIT" => a.traits.kind # "varuint16"}
    \cup {[shape |-> "array", arrayType |-> t, packed |-> TRUE,
           traits |-> [kind |-> "bits", numBits |-> 32],
           rawArray |-> <<BvOfNat(10, 4), BvOfNat(11, 4), BvOfNat(12, 4), BvOfNat(13, 4)>>] :
              t \in {"NORMAL", "ALIGNED_AUTO"}}
    \cup {[shape |-> "compound", m_numOfInner_ |-> BvOfNat(Len(inner), 1),
           m_outer_ |-> [inner |-> inner]] : inner \in SeqsUpTo(InnerValues, MaxInner)}

InitValue ==
    /\ \E v \in Values, pos \in StartPositions :
           /\ v.shape = "compound" => pos = 0
           /\ items = <<[v |-> v, pos |-> pos]>>
           /\ phase = IF v.shape = "compound" THEN "serialize" ELSE "measure"
    /\ wr = BitStreamWriter(<<>>, 0)
    /\ rd = <<>>
    /\ res = noResult
    /\ outs = <<>>

\* bitSizeOf of the scalar, Array::bitSizeOf or Array::bitSizeOfPacked at the
\* start position
measure(v, pos) ==
    IF v.shape = "scalar" THEN ArrayTraits_bitSizeOf(v.traits, v.value)
    ELSE IF v.packed
    THEN [err |-> ErrorCode.Success, value |-> bitSizeOfPackedImpl(v, pos)]
    ELSE bitSizeOfImpl(v, pos)

Measure ==
    /\ phase = "measure"
    /\ \E r \in {measure(items[1].v, items[1].pos)} :
           /\ res' = [op |-> "bitSizeOf", arg |-> items[1].pos, err |-> r.err,
                      value |-> r.value, pre |-> <<>>]
           /\ outs' = <<[op |-> "bitSizeOf", err |-> r.err, value |-> r.value]>>
           /\ phase' = IF r.err = ErrorCode.Success THEN "write" ELSE "failed"
    /\ UNCHANGED <<rd, wr, items>>

\* the write of the value: of the scalar, Array::write or Array::writePacked
writeValue(v, out) ==
    IF v.shape = "scalar" THEN ArrayTraits_write(out, v.traits, v.value)
    ELSE IF v.packed THEN writePackedImpl(v, out)
    ELSE writeImpl(v, out)

\* a writer over a zeroed span of exactly start position plus measured size
\* bits, moved to the start position, then the write of the value
WriteValue ==
    /\ phase = "write"
    /\ \E bitSize \in {items[1].pos + outs[1].value} :
       \E r \in {writeValue(items[1].v,
                            [BitStreamWriter([k \in 1..((bitSize + 7) \div 8) |-> 0], bitSize)
                                 EXCEPT !.bitIndex = items[1].pos])} :
           /\ wr' = r.wr
           /\ res' = [op |-> "write", arg |-> items[1].pos, err |-> r.err,
                      value |-> <<>>, pre |-> <<>>]
           /\ outs' = Append(outs, [op |-> "write", err |-> r.err,
                                    value |-> r.wr.bitIndex])
           /\ phase' = IF r.err = ErrorCode.Success THEN "read" ELSE "failed"
    /\ UNCHANGED <<rd, items>>

\* the read of the value on the reader that setBitPosition returned
readValue(v, in) ==
    IF in.err # ErrorCode.Success THEN in
    ELSE IF v.shape = "scalar" THEN ArrayTraits_read(in.ctx, v.traits)
    ELSE IF v.packed THEN readPackedImpl(v.arrayType, v.traits, NoOffsets, in.ctx,
                                       Len(v.rawArray))
    ELSE readImpl(v.arrayType, v.traits, NoOffsets, in.ctx, Len(v.rawArray))

\* a reader over the written span, moved to the start position, then the read
\* of the value
ReadValue ==
    /\ phase = "read"
    /\ \E W \in {32, 64}, wraps \in BOOLEAN :
           /\ W = 64 => wraps
           /\ \E in \in {setBitPosition(ReaderContext(wr.buffer, wr.bufferBitSize, W, wraps),
                                        items[1].pos)} :
              \E r \in {readValue(items[1].v, in)} :
                  /\ rd' = r.ctx
                  /\ res' = [op |-> "read", arg |-> items[1].pos, err |-> r.err,
                             value |-> r.value, pre |-> in.ctx]
                  /\ outs' = Append(outs, [op |-> "read", err |-> r.err,
                                           value |-> r.value])
    /\ phase' = "done"
    /\ UNCHANGED <<wr, items>>

\* zserio::serialize of the MostOuter
Serialize ==
    /\ phase = "serialize"
    /\ \E sizeResult \in {MostOuter_initializeOffsets(items[1].v, 0)} :
       \E r \in {serialize(items[1].v)} :
           /\ wr' = r.wr
           /\ res' = [op |-> "serialize", arg |-> 0, err |-> r.err, value |-> <<>>,
                      pre |-> <<>>]
           /\ outs' = <<[op |-> "initializeOffsets", err |-> sizeResult.err,
                         value |-> sizeResult.value],
                        [op |-> "write", err |-> r.err, value |-> r.wr.bitIndex]>>
           /\ phase' = IF r.err = ErrorCode.Success THEN "deserialize" ELSE "failed"
    /\ UNCHANGED <<rd, items>>

\* zserio::deserialize<MostOuter> of the serialized bit buffer
Deserialize ==
    /\ phase = "deserialize"
    /\ \E W \in {32, 64}, wraps \in BOOLEAN :
           /\ W = 64 => wraps
           /\ \E r \in {deserialize(wr.buffer, wr.bufferBitSize, W, wraps)} :
                  /\ rd' = r.ctx
                  /\ res' = [op |-> "deserialize", arg |-> 0, err |-> r.err,
                             value |-> r.value, pre |-> <<>>]
                  /\ outs' = Append(outs, [op |-> "read", err |-> r.err,
                                           value |-> r.value])
    /\ phase' = "done"
    /\ UNCHANGED <<wr, items>>

\* the element widths the written span is read with as an implicit array
ImplicitWidths == {0, 5, 7}

\* a reader over the span that an implicit array was written into, moved to the
\* start position, then Array::read of an implicit array of bit fields of
\* another width
ReadImplicit ==
    /\ phase = "read"
    /\ items[1].v.shape = "array"
    /\ items[1].v.arrayType = "IMPLICIT"
    /\ \E W \in {32, 64}, wraps \in BOOLEAN, numBits \in ImplicitWidths :
           /\ W = 64 => wraps
           /\ \E in \in {setBitPosition(ReaderContext(wr.buffer, wr.bufferBitSize, W, wraps),
                                        items[1].pos)} :
              \E r \in {readImpl("IMPLICIT", [kind |-> "bits", numBits |-> numBits],
                                 NoOffsets, in.ctx, 0)} :
                  /\ rd' = r.ctx
                  /\ res' = [op |-> "readImplicit", arg |-> numBits, err |-> r.err,
                             value |-> r.value, pre |-> in.ctx]
                  /\ outs' = Append(outs, [op |-> "read", err |-> r.err,
                                           value |-> r.value])
    /\ phase' = "implicit"
    /\ UNCHANGED <<wr, items>>

\* a reader over the span that an aligned array of elements of constant bit
\* size was written into, moved to the start position, then Array::read with
\* an owner that holds a byte offset for each element: the offsets of the
\* elements in the stream, one of them raised by shift
ReadOffsets ==
    /\ phase = "read"
    /\ items[1].v.shape = "array"
    /\ items[1].v.arrayType \in {"ALIGNED", "ALIGNED_AUTO"}
    /\ ~items[1].v.packed
    /\ items[1].v.traits.kind \in {"bits", "signedBits64"}
    /\ Len(items[1].v.rawArray) >= 1
    /\ \E W \in {32, 64}, wraps \in BOOLEAN, shift \in {0, 1},
          at \in 1..Len(items[1].v.rawArray) :
           /\ W = 64 => wraps
           /\ shift = 0 => at = 1
           /\ \E owner \in {[offsets |->
                                 [k \in 1..Len(items[1].v.rawArray) |->
                                     (wr.bufferBitSize + 7) \div 8
                                     - (Len(items[1].v.rawArray) - k + 1)
                                           * ((items[1].v.traits.numBits + 7) \div 8)
                                     + (IF k = at THEN shift ELSE 0)]]} :
              \E in \in {setBitPosition(ReaderContext(wr.buffer, wr.bufferBitSize, W, wraps),
                                        items[1].pos)} :
              \E r \in {readImpl(items[1].v.arrayType, items[1].v.traits, owner, in.ctx,
                                 Len(items[1].v.rawArray))} :
                  /\ rd' = r.ctx
                  /\ res' = [op |-> "readOffsets", arg |-> owner.offsets, err |-> r.err,
                             value |-> r.value, pre |-> in.ctx]
                  /\ outs' = Append(outs, [op |-> "read", err |-> r.err,
                                           value |-> r.value])
    /\ phase' = "offsets"
    /\ UNCHANGED <<wr, items>>

\* the numbers of bits the stream of an array is cut short by
Cuts == {1, 9}

\* a reader over the span an array was written into, cut short at its end and
\* moved to the start position, then Array::read of the array with its length
ReadTruncated ==
    /\ phase = "read"
    /\ items[1].v.shape = "array"
    /\ items[1].v.arrayType # "IMPLICIT"
    /\ ~items[1].v.packed
    /\ Len(items[1].v.rawArray) >= 1
    /\ \E W \in {32, 64}, wraps \in BOOLEAN, cut \in Cuts :
           /\ W = 64 => wraps
           /\ cut <= wr.bufferBitSize - items[1].pos
           /\ \E bitSize \in {wr.bufferBitSize - cut} :
              \E in \in {setBitPosition(
                             ReaderContext(SubSeq(wr.buffer, 1, (bitSize + 7) \div 8),
                                           bitSize, W, wraps),
                             items[1].pos)} :
              \E r \in {readImpl(items[1].v.arrayType, items[1].v.traits, NoOffsets, in.ctx,
                                 Len(items[1].v.rawArray))} :
                  /\ rd' = r.ctx
                  /\ res' = [op |-> "readTruncated", arg |-> cut, err |-> r.err,
                             value |-> r.value, pre |-> in.ctx]
                  /\ outs' = Append(outs, [op |-> "read", err |-> r.err,
                                           value |-> r.value])
    /\ phase' = "truncated"
    /\ UNCHANGED <<wr, items>>

NextValue ==
    \/ Measure
    \/ WriteValue
    \/ ReadValue
    \/ ReadImplicit
    \/ ReadOffsets
    \/ ReadTruncated
    \/ Serialize
    \/ Deserialize

SpecValue == InitValue /\ [][NextValue]_vars

\* C2: a MostOuter with k >= 0 Inner elements (k = 0, value 255 and the long
\* key included) is serialized without error, and deserializing the produced
\* bit buffer succeeds with a value whose numOfInner and whose every Inner key
\* and value equal those of the serialized one.
C2_CompoundRoundTrip ==
    items[1].v.shape = "compound" =>
        /\ phase # "failed"
        /\ phase = "done" =>
               /\ outs[3].err = ErrorCode.Success
               /\ outs[3].value = [m_numOfInner_ |-> items[1].v.m_numOfInner_,
                                   m_outer_ |-> items[1].v.m_outer_]

\* two Inner elements, one with value 255 and one with the long key, came back
C2_Witness ==
    /\ phase = "done"
    /\ items[1].v.shape = "compound"
    /\ outs[3].value.m_numOfInner_ = <<2>>
    /\ outs[3].value.m_outer_.inner[1].value = <<255>>
    /\ Len(outs[3].value.m_outer_.inner[2].key) = LongKeyLen
    /\ rd.bitIndex = 8 + (8 + 16 + 8) + (8 + 8 * LongKeyLen + 8)

\* C3: writing a value (scalar, array of any shape, MostOuter) at a start
\* position into a buffer of exactly the bit size that bitSizeOf (for the
\* MostOuter: initializeOffsets, as serialize does) predicted succeeds and
\* leaves the writer at the start position plus the predicted size.
C3_WriteEndsAtPredictedSize ==
    Len(outs) >= 2 =>
        /\ outs[2].err = ErrorCode.Success
        /\ outs[2].value = items[1].pos + outs[1].value
        /\ wr.bitIndex = wr.bufferBitSize

\* an aligned auto array of three var-integers of different sizes was written
\* from start position 3: the length in 8 bits, 5 bits of padding, then 8, 16
\* and 16 bits
C3_Witness ==
    /\ Len(outs) >= 2
    /\ items[1].pos = 3
    /\ items[1].v.shape = "array"
    /\ items[1].v.arrayType = "ALIGNED_AUTO"
    /\ ~items[1].v.packed
    /\ items[1].v.rawArray = <<(<<0, 127>>), (<<0, 128>>), (<<127, 255>>)>>
    /\ outs[1].value = 53
    /\ wr.bitIndex = 56

\* C6: a packed array written with the packed write and read with the packed
\* read comes back as exactly the element sequence written, whether the
\* context packed the deltas or fell back to unpacked.
C6_PackedRoundTrip ==
    (items[1].v.shape = "array" /\ items[1].v.packed /\ phase = "done") =>
        /\ outs[3].err = ErrorCode.Success
        /\ outs[3].value = items[1].v.rawArray

\* a delta packed array with a negative delta came back
C6_Witness ==
    /\ phase = "done"
    /\ items[1].v.shape = "array"
    /\ items[1].v.packed
    /\ items[1].v.traits.kind = "bits"
    /\ outs[3].value = <<BvOfNat(0, 4), BvOfNat(1, 4), BvOfNat(0, 4)>>
    /\ finishInit(initContext(items[1].v.traits, items[1].v.rawArray)).IS_PACKED_FLAG
    /\ items[1].v.arrayType = "NORMAL"
    /\ rd.bitIndex = items[1].pos + 17

\* the sizes DeltaContext::bitSizeOf returns over the elements of an array, in
\* order, on a context that init was called on for every element
DeltaSizes(array) ==
    LET added(before, r) == [context |-> r.context, value |-> before.value + r.value]
        step(before, index) ==
            added(before, DeltaContext_bitSizeOf(before.context, array.traits,
                                                 array.rawArray[index]))
        size[index \in 0..Len(array.rawArray)] ==
            IF index = 0
            THEN [context |-> initContext(array.traits, array.rawArray), value |-> 0]
            ELSE step(size[index - 1], index)
    IN  size[Len(array.rawArray)].value

\* the writer after DeltaContext::write was called for the elements of an
\* array, in order, on a second context initialised the same way
DeltaWrites(array) ==
    LET step(before, index) ==
            IF before.err # ErrorCode.Success THEN before
            ELSE DeltaContext_write(before.context, before.wr, array.traits,
                                    array.rawArray[index])
        write[index \in 0..Len(array.rawArray)] ==
            IF index = 0
            THEN [context |-> initContext(array.traits, array.rawArray),
                  wr |-> BitStreamWriter([k \in 1..(8 * MaxElements + 1) |-> 0],
                                         8 * (8 * MaxElements + 1)),
                  err |-> ErrorCode.Success]
            ELSE step(write[index - 1], index)
    IN  write[Len(array.rawArray)]

\* C7: for a packed array, the sum of the values DeltaContext::bitSizeOf
\* returns over the elements equals the number of bits DeltaContext::write
\* emits for them (descriptor included) on a context initialised by the same
\* init calls, and the array's on-wire length equals the length the
\* measurement pass predicted.
C7_MeasuredEqualsWritten ==
    (items[1].v.shape = "array" /\ items[1].v.packed /\ Len(outs) >= 2) =>
        LET equal(measured, written) ==
                /\ written.err = ErrorCode.Success
                /\ written.wr.bitIndex = measured
                /\ wr.bitIndex - items[1].pos = outs[1].value
                /\ items[1].v.arrayType = "NORMAL" => outs[1].value = measured
        IN  equal(DeltaSizes(items[1].v), DeltaWrites(items[1].v))

\* three 64 bit elements packed as a descriptor, the first element and two
\* deltas of 42 bits
C7_Witness ==
    /\ Len(outs) >= 2
    /\ items[1].v.shape = "array"
    /\ items[1].v.packed
    /\ items[1].v.arrayType = "NORMAL"
    /\ items[1].v.rawArray = <<BvZero(8), (<<0, 0, 1, 0, 0, 0, 0, 0>>), BvZero(8)>>
    /\ DeltaSizes(items[1].v) = 7 + 64 + 2 * 42
    /\ wr.bitIndex = items[1].pos + 155

\* C8: the on-wire size of a packed array never exceeds the size of the same
\* elements written unpacked.
C8_PackedNeverLarger ==
    (items[1].v.shape = "array" /\ items[1].v.packed /\ Len(outs) >= 2) =>
        wr.bitIndex - items[1].pos
            <= bitSizeOfImpl([items[1].v EXCEPT !.packed = FALSE], items[1].pos).value


\* C16: for an ALIGNED or ALIGNED_AUTO array of n >= 1 elements of constant
\* bit width w, bitSizeOf at the start position returns the bits of the varsize
\* length (AUTO only) plus the bits up to the next byte boundary plus
\* w + (n - 1) * 8 * ceil(w / 8), and write emits exactly that many bits from
\* the same start position.
C16_AlignedConstSize ==
    (/\ items[1].v.shape = "array"
     /\ ~items[1].v.packed
     /\ items[1].v.arrayType \in {"ALIGNED", "ALIGNED_AUTO"}
     /\ items[1].v.traits.kind \in {"bits", "signedBits64"}
     /\ Len(items[1].v.rawArray) >= 1
     /\ Len(outs) >= 1)
    => LET n == Len(items[1].v.rawArray)
           w == items[1].v.traits.numBits
           prefix == IF items[1].v.arrayType = "ALIGNED_AUTO" THEN 8 ELSE 0
           pad == (8 - ((items[1].pos + prefix) % 8)) % 8
       IN  /\ outs[1].err = ErrorCode.Success
           /\ outs[1].value = prefix + pad + w + (n - 1) * 8 * ((w + 7) \div 8)
           /\ Len(outs) >= 2 =>
                  /\ outs[2].err = ErrorCode.Success
                  /\ wr.bitIndex - items[1].pos = outs[1].value

\* an aligned auto array of three 6 bit elements was measured and written from
\* start position 3: 8 bits of length, 5 bits of padding, 6 + 2 + 6 + 2 + 6
C16_Witness ==
    /\ Len(outs) >= 2
    /\ items[1].pos = 3
    /\ items[1].v.shape = "array"
    /\ items[1].v.arrayType = "ALIGNED_AUTO"
    /\ ~items[1].v.packed
    /\ items[1].v.traits = [kind |-> "bits", numBits |-> 6]
    /\ Len(items[1].v.rawArray) = 3
    /\ outs[1].value = 35
    /\ wr.bitIndex = 38

\* C17 as stated: an ALIGNED array of three 3 bit elements written from bit
\* position 0 emits 24 bits in total.
C17_ThreeU3Emit24 ==
    (/\ items[1].pos = 0
     /\ items[1].v.shape = "array"
     /\ items[1].v.arrayType = "ALIGNED"
     /\ ~items[1].v.packed
     /\ items[1].v.traits = [kind |-> "bits", numBits |-> 3]
     /\ Len(items[1].v.rawArray) = 3
     /\ Len(outs) >= 2) =>
        /\ outs[1].value = 24
        /\ wr.bitIndex = 24

\* C17: an ALIGNED array of three 3 bit elements written from bit position 0
\* emits 3 bits + 5 pad, then 3 bits + 5 pad, then 3 bits, 19 bits in total
\* (the last element is not padded), and reading those bits back as the same
\* array yields the three original values.
C17_ThreeU3Emit19 ==
    (/\ items[1].pos = 0
     /\ items[1].v.shape = "array"
     /\ items[1].v.arrayType = "ALIGNED"
     /\ ~items[1].v.packed
     /\ items[1].v.traits = [kind |-> "bits", numBits |-> 3]
     /\ Len(items[1].v.rawArray) = 3
     /\ Len(outs) >= 2) =>
        /\ outs[1].value = 19
        /\ outs[2].err = ErrorCode.Success
        /\ wr.bitIndex = 19
        /\ wr.bufferBitSize = 19
        /\ wr.buffer = [k \in 1..3 |-> BvToNat(items[1].v.rawArray[k]) * 32]
        /\ phase = "done" =>
               /\ outs[3].err = ErrorCode.Success
               /\ outs[3].value = items[1].v.rawArray
               /\ rd.bitIndex = 19

\* the elements 1, 5 and 7 were written as 20 A0 E0 and read back
C17_Witness ==
    /\ items[1].pos = 0
    /\ items[1].v.shape = "array"
    /\ items[1].v.arrayType = "ALIGNED"
    /\ ~items[1].v.packed
    /\ items[1].v.traits = [kind |-> "bits", numBits |-> 3]
    /\ phase = "done"
    /\ wr.buffer = <<32, 160, 224>>
    /\ outs[3].value = <<BvOfNat(1, 4), BvOfNat(5, 4), BvOfNat(7, 4)>>
    /\ rd.bitIndex = 19

\* C18: reading an IMPLICIT array of elements of constant bit size w computes
\* the length floor((bufferBitSize - position) / w) and reads exactly that
\* many elements, each the next w bits of the stream; with w = 0 the read
\* returns DivisionByZero and reads no element.
C18_ImplicitLength ==
    res.op = "readImplicit" =>
        LET remainingBits == res.pre.bufferBitSize - res.pre.bitIndex
        IN  IF res.arg = 0
            THEN /\ res.err = ErrorCode.DivisionByZero
                 /\ res.value = <<>>
                 /\ rd = res.pre
            ELSE /\ res.err = ErrorCode.Success
                 /\ Len(res.value) = remainingBits \div res.arg
                 /\ \A k \in 1..Len(res.value) :
                        res.value[k] = StreamBits(res.pre.buffer,
                                                  res.pre.bitIndex + (k - 1) * res.arg,
                                                  res.arg, 4)
                 /\ rd.bitIndex = res.pre.bitIndex + Len(res.value) * res.arg

\* 18 bits written from start position 3 were read as two elements of 7 bits,
\* 4 bits left over
C18_Witness ==
    /\ res.op = "readImplicit"
    /\ res.arg = 7
    /\ res.pre.bitIndex = 3
    /\ res.pre.bufferBitSize = 21
    /\ Len(res.value) = 2
    /\ res.value[1] # <<0, 0, 0, 0>>
    /\ rd.bitIndex = 17

\* C19: when an aligned array is read with an owner whose array expressions
\* check offsets, and for some index i the offset stored for element i differs
\* from the reader's byte position after aligning, the read returns
\* InvalidOffset and element i is not read.
C19_MismatchIsInvalidOffset ==
    res.op = "readOffsets" =>
        LET first == (res.pre.bitIndex
                      + (IF items[1].v.arrayType = "ALIGNED_AUTO" THEN 8 ELSE 0) + 7) \div 8
            bytePosition(i) == first + (i - 1) * ((items[1].v.traits.numBits + 7) \div 8)
        IN  \A i \in 1..Len(res.arg) :
                (/\ res.arg[i] # bytePosition(i)
                 /\ \A j \in 1..(i - 1) : res.arg[j] = bytePosition(j))
                => /\ res.err = ErrorCode.InvalidOffset
                   /\ Len(res.value) = i - 1

\* C20: when an array of announced length n is read and the read of element k
\* fails, the array read returns the error of that element's aligning or
\* read, the vector holds exactly the k elements read before it, in order,
\* and the reader is left where the failed element left it: the result is that
\* of reading k elements from the same stream followed by the failing element.
C20_PartialRead ==
    (/\ res.op = "readTruncated"
     /\ res.err # ErrorCode.Success
     /\ items[1].v.arrayType \in {"AUTO", "ALIGNED_AUTO"} =>
            readVarSize(res.pre).err = ErrorCode.Success)
    => /\ Len(res.value) < Len(items[1].v.rawArray)
       /\ res.value = SubSeq(items[1].v.rawArray, 1, Len(res.value))
       /\ The({/\ first.err = ErrorCode.Success
               /\ first.value = res.value
               /\ The({IF alignResult.err # ErrorCode.Success
                       THEN res.err = alignResult.err /\ rd = alignResult.ctx
                       ELSE The({/\ readResult.err = res.err
                                 /\ readResult.ctx = rd
                                 /\ rd.bitIndex >= first.ctx.bitIndex :
                                 readResult \in {ArrayTraits_read(alignResult.ctx,
                                                                  items[1].v.traits)}}) :
                       alignResult \in {alignAndCheckOffset(items[1].v.arrayType,
                                                            first.ctx, NoOffsets,
                                                            Len(res.value))}}) :
               first \in {readImpl(IF items[1].v.arrayType \in {"ALIGNED", "ALIGNED_AUTO"}
                                   THEN "ALIGNED" ELSE "NORMAL",
                                   items[1].v.traits, NoOffsets,
                                   IF items[1].v.arrayType \in {"AUTO", "ALIGNED_AUTO"}
                                   THEN readVarSize(res.pre).ctx ELSE res.pre,
                                   Len(res.value))}})

\* three var-integers of 8, 16 and 16 bits, written from position 3, cut short
\* by 1 bit: two were read, the third failed after its first byte was taken
\* from the stream
C20_Witness ==
    /\ res.op = "readTruncated"
    /\ res.arg = 1
    /\ items[1].v.arrayType = "NORMAL"
    /\ items[1].v.rawArray = <<(<<0, 127>>), (<<0, 128>>), (<<127, 255>>)>>
    /\ res.err = ErrorCode.EndOfStream
    /\ res.value = <<(<<0, 127>>), (<<0, 128>>)>>
    /\ res.pre.bitIndex = 3
    /\ rd.bitIndex = 35

\* C23: once, during the init pass over a packed array, the bit length of
\* |element - previous element| exceeds 62, IS_PACKED is clear after that init
\* call, after every later init call and after finishInit, and every element
\* is measured and written unpacked: one descriptor bit 0, then the elements
\* in full.
C23_LimitClearsPacking ==
    (/\ items[1].v.shape = "array"
     /\ items[1].v.packed
     /\ Len(outs) >= 2)
    => \A i \in 2..Len(items[1].v.rawArray) :
           calcBitLength(items[1].v.traits, items[1].v.rawArray[i],
                         items[1].v.rawArray[i - 1]) > MAX_BIT_NUMBER_LIMIT
           => /\ \A k \in i..Len(items[1].v.rawArray) :
                     /\ ~initContext(items[1].v.traits,
                                     SubSeq(items[1].v.rawArray, 1, k)).IS_PACKED_FLAG
                     /\ ~finishInit(initContext(items[1].v.traits,
                                                SubSeq(items[1].v.rawArray, 1, k))).IS_PACKED_FLAG
              /\ DeltaSizes(items[1].v)
                     = 1 + Len(items[1].v.rawArray) * items[1].v.traits.numBits
              /\ items[1].v.arrayType = "NORMAL" =>
                     /\ outs[1].value = 1 + Len(items[1].v.rawArray) * items[1].v.traits.numBits
                     /\ StreamBits(wr.buffer, items[1].pos, 1, 1) = <<0>>
                     /\ \A k \in 1..Len(items[1].v.rawArray) :
                            StreamBits(wr.buffer, items[1].pos + 1 + (k - 1) * 64, 64, 8)
                                = items[1].v.rawArray[k]

\* 0, INT64_MIN, INT64_MIN: the second init call sees a delta of 64 bits, the
\* third a delta of 0 bits; 193 bits were written
C23_Witness ==
    /\ Len(outs) >= 2
    /\ items[1].v.shape = "array"
    /\ items[1].v.packed
    /\ items[1].v.arrayType = "NORMAL"
    /\ items[1].v.rawArray = <<BvZero(8), (<<128, 0, 0, 0, 0, 0, 0, 0>>),
                               (<<128, 0, 0, 0, 0, 0, 0, 0>>)>>
    /\ initContext(items[1].v.traits, items[1].v.rawArray).maxBitNumber = 64
    /\ wr.bitIndex = items[1].pos + 193

\* C24: after the init pass over the n >= 1 elements of a packed array, with
\* s1 the size of the first element and m <= 62 the largest bit length of
\* |e_i - e_(i-1)|, the context is packed exactly when n >= 2 and
\* 1 + 6 + s1 + (n - 1) * (m + [m > 0]) < 1 + the sum of the unpacked element
\* sizes; the measured total is the left-hand side when packed and the
\* right-hand side otherwise.  For [10, 11, 12, 13] of 32 bit unsigned elements
\* m = 1 and bitSizeOfPacked returns 45.
C24_PackingDecision ==
    (/\ items[1].v.shape = "array"
     /\ items[1].v.packed
     /\ Len(items[1].v.rawArray) >= 1
     /\ Len(outs) >= 1)
    => LET raw == items[1].v.rawArray
           n == Len(raw)
           s1 == ArrayTraits_bitSizeOf(items[1].v.traits, raw[1]).value
           sum[k \in 0..n] ==
               IF k = 0 THEN 0
               ELSE sum[k - 1] + ArrayTraits_bitSizeOf(items[1].v.traits, raw[k]).value
           max[k \in 1..n] ==
               IF k = 1 THEN 0
               ELSE IF calcBitLength(items[1].v.traits, raw[k], raw[k - 1]) > max[k - 1]
               THEN calcBitLength(items[1].v.traits, raw[k], raw[k - 1])
               ELSE max[k - 1]
           lhs == 1 + 6 + s1 + (n - 1) * (max[n] + (IF max[n] > 0 THEN 1 ELSE 0))
           rhs == 1 + sum[n]
       IN  /\ max[n] <= 62 =>
                  /\ finishInit(initContext(items[1].v.traits, raw)).IS_PACKED_FLAG
                         <=> (n >= 2 /\ lhs < rhs)
                  /\ DeltaSizes(items[1].v) = IF n >= 2 /\ lhs < rhs THEN lhs ELSE rhs
                  /\ items[1].v.arrayType = "NORMAL" =>
                         outs[1].value = IF n >= 2 /\ lhs < rhs THEN lhs ELSE rhs
           /\ (/\ raw = <<BvOfNat(10, 4), BvOfNat(11, 4), BvOfNat(12, 4), BvOfNat(13, 4)>>
               /\ items[1].v.traits = [kind |-> "bits", numBits |-> 32]
               /\ items[1].v.arrayType = "NORMAL")
              => /\ max[n] = 1
                 /\ outs[1].value = 45

\* bitSizeOfPacked of [10, 11, 12, 13] returned 45 and 45 bits were written
C24_Witness ==
    /\ Len(outs) >= 2
    /\ items[1].v.shape = "array"
    /\ items[1].v.packed
    /\ items[1].v.arrayType = "NORMAL"
    /\ items[1].v.rawArray
           = <<BvOfNat(10, 4), BvOfNat(11, 4), BvOfNat(12, 4), BvOfNat(13, 4)>>
    /\ outs[1].value = 45
    /\ wr.bitIndex = items[1].pos + 45

\* the context, the writer and the error code before and after each of a
\* sequence of DeltaContext::write calls on a context initialised over an array
DeltaWritesTrace(array, elements) ==
    LET write[index \in 0..Len(elements)] ==
            IF index = 0
            THEN <<[context |-> initContext(array.traits, array.rawArray),
                    wr |-> BitStreamWriter([i \in 1..(8 * MaxElements + 1) |-> 0],
                                           8 * (8 * MaxElements + 1)),
                    err |-> ErrorCode.Success]>>
            ELSE The({Append(before,
                             DeltaContext_write(before[index].context, before[index].wr,
                                                array.traits, elements[index])) :
                      before \in {write[index - 1]}})
    IN  write[Len(elements)]

\* the context before and after each of a sequence of DeltaContext::bitSizeOf
\* calls on a context initialised over an array, with the size each call
\* returned
DeltaSizesTrace(array, elements) ==
    LET size[index \in 0..Len(elements)] ==
            IF index = 0
            THEN <<[context |-> initContext(array.traits, array.rawArray), value |-> 0]>>
            ELSE The({Append(before,
                             DeltaContext_bitSizeOf(before[index].context, array.traits,
                                                    elements[index])) :
                      before \in {size[index - 1]}})
    IN  size[Len(elements)]

\* C29: over a sequence of write calls, and over a sequence of bitSizeOf
\* calls, on one initialised delta context (the array's elements in order, or
\* in reverse order), the descriptor is emitted (counted) on the first call,
\* before the first element's bits, and on no later call; PROCESSING_STARTED
\* is clear before the first call and set after every call; IS_PACKED after
\* every call is what it was after the first call.
C29_DescriptorOnce ==
    (/\ items[1].v.shape = "array"
     /\ items[1].v.packed
     /\ Len(items[1].v.rawArray) >= 1
     /\ phase = "read")
    => \A elements \in {items[1].v.rawArray,
                        [i \in 1..Len(items[1].v.rawArray) |->
                             items[1].v.rawArray[Len(items[1].v.rawArray) + 1 - i]]} :
       \A w \in {DeltaWritesTrace(items[1].v, elements)} :
       \A s \in {DeltaSizesTrace(items[1].v, elements)} :
           LET array == items[1].v
               isPacked == w[2].context.IS_PACKED_FLAG
               descriptor == IF isPacked THEN 1 + MAX_BIT_NUMBER_BITS ELSE 1
               \* the bits one call after the first takes for an element
               elementBits(k) ==
                   IF isPacked
                   THEN w[2].context.maxBitNumber
                        + (IF w[2].context.maxBitNumber > 0 THEN 1 ELSE 0)
                   ELSE ArrayTraits_bitSizeOf(array.traits, elements[k]).value
           IN  /\ ~w[1].context.PROCESSING_STARTED_FLAG
               /\ ~s[1].context.PROCESSING_STARTED_FLAG
               /\ s[2].context.IS_PACKED_FLAG = isPacked
               \* the first call: the descriptor, then the first element in full
               /\ w[2].err = ErrorCode.Success
               /\ StreamBits(w[2].wr.buffer, 0, 1, 1) = <<IF isPacked THEN 1 ELSE 0>>
               /\ isPacked => StreamBits(w[2].wr.buffer, 1, MAX_BIT_NUMBER_BITS, 1)
                                  = <<w[2].context.maxBitNumber>>
               /\ w[2].wr.bitIndex
                      = descriptor + ArrayTraits_bitSizeOf(array.traits, elements[1]).value
               /\ array.traits.kind = "bits" =>
                      StreamBits(w[2].wr.buffer, descriptor, array.traits.numBits,
                                 Len(elements[1])) = elements[1]
               /\ s[2].value
                      = descriptor + ArrayTraits_bitSizeOf(array.traits, elements[1]).value
               \* every call: the flags; the later calls: the element only
               /\ \A k \in 1..Len(elements) :
                      /\ w[k + 1].context.PROCESSING_STARTED_FLAG
                      /\ s[k + 1].context.PROCESSING_STARTED_FLAG
                      /\ w[k + 1].context.IS_PACKED_FLAG = isPacked
                      /\ s[k + 1].context.IS_PACKED_FLAG = isPacked
                      /\ StreamBits(w[k + 1].wr.buffer, 0, 1, 1)
                             = <<IF isPacked THEN 1 ELSE 0>>
                      /\ k >= 2 =>
                             /\ s[k + 1].value = elementBits(k)
                             /\ w[k + 1].err = ErrorCode.Success =>
                                    w[k + 1].wr.bitIndex = w[k].wr.bitIndex + elementBits(k)
                             /\ w[k + 1].err # ErrorCode.Success => w[k + 1].wr = w[k].wr

\* [10, 11, 12, 13] of 32 bit elements: the first write call emits the 7 bit
\* descriptor and 32 bits, the three later calls 2 bits each
C29_Witness ==
    /\ phase = "read"
    /\ items[1].v.shape = "array"
    /\ items[1].v.packed
    /\ Len(items[1].v.rawArray) = 4
    /\ items[1].v.arrayType = "NORMAL"
    /\ DeltaWritesTrace(items[1].v, items[1].v.rawArray)[2].wr.bitIndex = 39
    /\ DeltaWritesTrace(items[1].v, items[1].v.rawArray)[5].wr.bitIndex = 45
    /\ DeltaWritesTrace(items[1].v, items[1].v.rawArray)[5].context.IS_PACKED_FLAG
    /\ DeltaSizesTrace(items[1].v, items[1].v.rawArray)[3].value = 2
---------------------------------------------------------------------------
(* A reader positioned at a start offset of a stream that holds, from that    *)
(* offset on, a varsize prefix and what follows it; the caller then reads     *)
(* bytes, a string or a bit buffer                                            *)

\* what the streams hold from the start offset on: a prefix with its whole
\* payload, a prefix with less than it announces, an unfinished prefix
BlobSequences ==
    {<<2, 104, 105>>, <<0>>, <<3, 255, 0, 129>>, <<11, 255, 224>>, <<2, 104>>,
     <<129, 0, 7>>, <<5>>, <<128>>}

\* the span that holds offset one bits and then the bits of the sequence
RECURSIVE StreamAt(_, _)
StreamAt(bytes, offset) ==
    IF offset >= 8 THEN <<255>> \o StreamAt(bytes, offset - 8)
    ELSE IF offset = 0 THEN bytes
    ELSE [BvShr(bytes \o <<0>>, offset) EXCEPT ![1] = @ + 256 - 2 ^ (8 - offset)]

InitBlob ==
    /\ \E bytes \in BlobSequences, offset \in {0, 1, 3, 7, 8, 13}, W \in {32, 64},
          wraps \in BOOLEAN :
           /\ W = 64 => wraps
           /\ items = <<[bytes |-> bytes, pos |-> offset]>>
           /\ rd = ReaderContext(StreamAt(bytes, offset), offset + 8 * Len(bytes), W, wraps)
    /\ res = noResult
    /\ wr = <<>>
    /\ phase = "blob"
    /\ outs = <<>>

\* the caller moves to the start offset with setBitPosition
Seek ==
    /\ res.op = "none"
    /\ Called("setBitPosition", items[1].pos, setBitPosition(rd, items[1].pos))

\* the caller moves to the start offset by reading the bits before it
Skip ==
    /\ res.op = "none"
    /\ items[1].pos <= 32
    /\ Called("readBits", items[1].pos, readBits(rd, items[1].pos))

ReadBlob ==
    /\ res.op \in {"setBitPosition", "readBits"}
    /\ \/ Called("readBytes", 0, readBytes(rd))
       \/ Called("readString", 0, readString(rd))
       \/ Called("readBitBuffer", 0, readBitBuffer(rd))

NextBlob ==
    \/ Seek
    \/ Skip
    \/ ReadBlob

SpecBlob == InitBlob /\ [][NextBlob]_vars

\* C12: for every stream and every start bit offset at which a varsize prefix
\* L and L further bytes lie within the stream, readBytes and readString
\* return exactly the L bytes that follow the prefix and leave the position
\* 8 * L bits after the prefix; the bytes are those placed at the offset,
\* whether the position after the prefix is byte aligned or not.  The bytes
\* 0x02 0x68 0x69 read as a string give "hi" (0x68 0x69).
C12_BytesFollowPrefix ==
    res.op \in {"readBytes", "readString"} =>
        The({(/\ prefix.err = ErrorCode.Success
              /\ prefix.ctx.bitIndex + 8 * BvToNat(prefix.value) <= res.pre.bufferBitSize)
             => /\ res.err = ErrorCode.Success
                /\ res.value = Bytes(BvToNat(prefix.value),
                                     [i \in 1..BvToNat(prefix.value) |->
                                         StreamBits(res.pre.buffer,
                                                    prefix.ctx.bitIndex + 8 * (i - 1), 8, 1)[1]])
                /\ res.value = SubSeq(items[1].bytes, 2, Len(items[1].bytes))
                /\ rd.bitIndex = prefix.ctx.bitIndex + 8 * BvToNat(prefix.value)
                /\ (res.op = "readString" /\ res.pre.buffer = <<2, 104, 105>>)
                   => res.value = <<104, 105>> :
             prefix \in {readVarSize(res.pre)}})

\* three bytes were read through the cache from an offset that is not byte
\* aligned
C12_Witness ==
    /\ res.op = "readBytes"
    /\ items[1].pos = 13
    /\ res.err = ErrorCode.Success
    /\ res.value = <<255, 0, 129>>
    /\ rd.bitIndex = 13 + 32

\* C13: a readBytes, readString or readBitBuffer whose decoded length prefix
\* announces more bits than remain in the stream returns EndOfStream, at byte
\* aligned and at unaligned positions alike, and so does a read whose prefix
\* ends with a continuation bit at the end of the stream.
C13_CrossingReadIsEndOfStream ==
    res.op \in {"readBytes", "readString", "readBitBuffer"} =>
        The({/\ (/\ prefix.err = ErrorCode.Success
                 /\ prefix.ctx.bitIndex
                    + (IF res.op = "readBitBuffer" THEN 1 ELSE 8) * BvToNat(prefix.value)
                    > res.pre.bufferBitSize)
                => res.err = ErrorCode.EndOfStream
             /\ items[1].bytes = <<128>> => res.err = ErrorCode.EndOfStream :
             prefix \in {readVarSize(res.pre)}})

---------------------------------------------------------------------------
(* The negative zero of varint *)

\* C11: a varint whose first byte is exactly 0x80 (sign set, no continuation,
\* zero magnitude), whatever follows it, decodes with readVarInt to INT64_MIN
\* and consumes exactly 8 bits, and bitSizeOfVarInt of the decoded value is 8.
C11_NegativeZeroIsInt64Min ==
    (res.op = "varint" /\ res.pre.buffer[1] = 128) =>
        /\ res.err = ErrorCode.Success
        /\ res.value = BvShl(BvOfNat(1, 8), 63)
        /\ rd.bitIndex = res.pre.bitIndex + 8
        /\ bitSizeOfVarNum("varint", res.value) = [err |-> ErrorCode.Success, value |-> 8]

\* byte 0x80 followed by four more bytes was read as a varint
C11_Witness ==
    /\ res.op = "varint"
    /\ res.pre.buffer = <<128, 255, 128, 255, 127>>
    /\ res.value = BvShl(BvOfNat(1, 8), 63)
    /\ rd.bitIndex = 8
    /\ rd.cacheNumBits > 0

---------------------------------------------------------------------------
(* The loops of Array::readImpl, writeImpl, initializeOffsetsImpl,            *)
(* writePackedImpl and bitSizeOfPackedImpl, one call of the loop body at a    *)
(* time.  items holds the array, the start position and the operation, res    *)
(* the locals of the operation (index, arrayLength, context, endBitPosition), *)
(* phase the call that comes next, outs the calls made so far, each with the  *)
(* index, the position, the byte position passed, the outcome and the context *)
(* after it                                                                   *)

\* the loop header that skips alignAndCheckOffset
afterElementSkip(arrayType, index, arrayLength) ==
    IF index + 1 >= arrayLength THEN "done" ELSE "element"

\* for (index...; index < arrayLength; ++index): what follows the element codec
\* of an index, -1 for the loop's entry
afterElement(arrayType, index, arrayLength) ==
    IF index + 1 >= arrayLength THEN "done"
    ELSE IF arrayType \in {"ALIGNED", "ALIGNED_AUTO"} THEN "align"
    ELSE "element"

\* a packed operation that goes to the emit loop without the init loop
afterLengthNoInit(op, arrayType, arrayLength) == afterElement(arrayType, -1, arrayLength)

\* what follows the array length: if (arrayLength > 0) { PackingContext context;
\* for ... packedArrayTraitsInitContext } in the packed operations
afterLength(op, arrayType, arrayLength) ==
    IF op \in {"writePacked", "bitSizeOfPacked"} /\ arrayLength > 0 THEN "init"
    ELSE afterElement(arrayType, -1, arrayLength)

\* the bit position of the operation: of the reader, of the writer, or
\* endBitPosition
LoopPosition(op, in, out, locals) ==
    IF op = "read" THEN in.bitIndex
    ELSE IF op \in {"write", "writePacked"} THEN out.bitIndex
    ELSE locals.endBitPosition

InitLoop ==
    /\ \E v \in {a \in ArrayValues :
                      /\ a.traits.kind \in {"bits", "varuint16"} /\ a.traits.numBits # 6
                      /\ a.arrayType = "IMPLICIT" => a.traits.kind # "varuint16"},
          pos \in StartPositions, short \in {0, 1} :
       \E op \in IF v.packed THEN {"writePacked", "bitSizeOfPacked"}
                 ELSE {"read", "write", "initializeOffsets"} :
           /\ op \in {"initializeOffsets", "bitSizeOfPacked"} => short = 0
           /\ items = <<[v |-> v, pos |-> pos, op |-> op]>>
           /\ \E bitSize \in {pos + measure(v, pos).value} :
              \E size \in {IF bitSize >= pos + 8 * short THEN bitSize - 8 * short
                           ELSE bitSize} :
                  /\ wr = IF op = "read"
                          THEN writeValue(v, [BitStreamWriter([k \in 1..((bitSize + 7) \div 8) |-> 0],
                                                              bitSize)
                                                  EXCEPT !.bitIndex = pos]).wr
                          ELSE [BitStreamWriter([k \in 1..((size + 7) \div 8) |-> 0], size)
                                    EXCEPT !.bitIndex = pos]
                  /\ rd = IF op = "read"
                          THEN setBitPosition(
                                   ReaderContext(SubSeq(wr.buffer, 1, (size + 7) \div 8), size,
                                                 64, TRUE), pos).ctx
                          ELSE <<>>
           /\ res = [index |-> 0, arrayLength |-> Len(v.rawArray), context |-> DeltaContext,
                     endBitPosition |-> pos, err |-> ErrorCode.Success]
    /\ phase = "length"
    /\ outs = <<>>

\* readArrayLength, writeArrayLength or addBitSizeOfArrayLength, and the
\* construction of the packing context
StepLength ==
    /\ phase = "length"
    /\ \E array \in {items[1].v}, op \in {items[1].op} :
       \E r \in {IF op = "read"
                 THEN readArrayLength(array.arrayType, array.traits, rd, Len(array.rawArray))
                 ELSE IF op \in {"write", "writePacked"}
                 THEN [wr |-> writeArrayLength(array.arrayType, wr, Len(array.rawArray)).wr,
                       err |-> writeArrayLength(array.arrayType, wr, Len(array.rawArray)).err,
                       value |-> Len(array.rawArray)]
                 ELSE IF op = "initializeOffsets"
                 THEN [err |-> addBitSizeOfArrayLength(array.arrayType, res.endBitPosition,
                                                       Len(array.rawArray)).err,
                       endBitPosition |->
                           addBitSizeOfArrayLength(array.arrayType, res.endBitPosition,
                                                   Len(array.rawArray)).value,
                       value |-> Len(array.rawArray)]
                 ELSE \* bitSizeOfPackedImpl does not look at the outcome
                      [err |-> ErrorCode.Success,
                       endBitPosition |->
                           addBitSizeOfArrayLength(array.arrayType, res.endBitPosition,
                                                   Len(array.rawArray)).value,
                       value |-> Len(array.rawArray)]} :
           /\ rd' = IF op = "read" THEN r.ctx ELSE rd
           /\ wr' = IF op \in {"write", "writePacked"} THEN r.wr ELSE wr
           /\ res' = [res EXCEPT
                          !.err = r.err,
                          !.arrayLength = IF r.err = ErrorCode.Success THEN r.value ELSE @,
                          !.endBitPosition = IF op \in {"initializeOffsets", "bitSizeOfPacked"}
                                                /\ r.err = ErrorCode.Success
                                             THEN r.endBitPosition ELSE @]
           /\ phase' = IF r.err # ErrorCode.Success THEN "failed"
                       ELSE afterLength(op, array.arrayType, r.value)
           /\ outs' = Append(outs, [step |-> "length", index |-> -1,
                     position |-> LoopPosition(op, rd', wr', res'),
                     arg |-> 0, err |-> r.err,
                     context |-> DeltaContext])
    /\ UNCHANGED items

\* one packedArrayTraitsInitContext call of the first loop of a packed operation
StepInit ==
    /\ phase = "init"
    /\ \E array \in {items[1].v} :
       \E context \in {DeltaContext_init(res.context, array.traits,
                                         array.rawArray[res.index + 1])} :
           /\ res' = [res EXCEPT !.context = context,
                                 !.index = IF @ + 1 < res.arrayLength THEN @ + 1 ELSE 0]
           /\ phase' = IF res.index + 1 < res.arrayLength THEN "init"
                       ELSE afterElement(array.arrayType, -1, res.arrayLength)
           /\ outs' = Append(outs, [step |-> "init", index |-> res.index,
                     position |-> LoopPosition(items[1].op, rd, wr, res),
                     arg |-> 0, err |-> ErrorCode.Success,
                     context |-> context])
    /\ UNCHANGED <<rd, wr, items>>

\* io.alignTo(8) of alignAndCheckOffset, alignTo(8, bitPosition) of initializeOffset,
\* alignBitPosition of bitSizeOfPackedImpl
StepAlign ==
    /\ phase = "align"
    /\ \E array \in {items[1].v}, op \in {items[1].op} :
       \E r \in {IF op = "read" THEN alignTo(rd, 8)
                 ELSE IF op \in {"write", "writePacked"}
                 THEN WResult(alignAndCheckOffsetOut(array.arrayType, wr).wr,
                              alignAndCheckOffsetOut(array.arrayType, wr).err)
                 ELSE [err |-> ErrorCode.Success,
                       endBitPosition |-> alignBitPosition(array.arrayType,
                                                           res.endBitPosition)]} :
           /\ rd' = IF op = "read" THEN r.ctx ELSE rd
           /\ wr' = IF op \in {"write", "writePacked"} THEN r.wr ELSE wr
           /\ res' = [res EXCEPT !.err = r.err,
                                 !.endBitPosition =
                                     IF op \in {"initializeOffsets", "bitSizeOfPacked"}
                                     THEN r.endBitPosition ELSE @]
           /\ phase' = IF r.err # ErrorCode.Success THEN "failed"
                       ELSE IF op = "bitSizeOfPacked" THEN "element"
                       ELSE "check"
           /\ outs' = Append(outs, [step |-> "align", index |-> res.index,
                     position |-> LoopPosition(op, rd', wr', res'),
                     arg |-> 0, err |-> r.err,
                     context |-> res.context])
    /\ UNCHANGED items

\* detail::checkOffset of alignAndCheckOffset or detail::initializeOffset of
\* initializeOffset, with the byte position
StepCheck ==
    /\ phase = "check"
    /\ \E op \in {items[1].op} :
       \E bytePosition \in {LoopPosition(op, rd, wr, res) \div 8} :
       \E r \in {IF op = "initializeOffsets" THEN [err |-> ErrorCode.Success]
                 ELSE checkOffset(NoOffsets, res.index, bytePosition)} :
           /\ res' = [res EXCEPT !.err = r.err]
           /\ phase' = IF r.err # ErrorCode.Success THEN "failed" ELSE "element"
           /\ outs' = Append(outs, [step |-> IF op = "initializeOffsets" THEN "initializeOffset"
                               ELSE "checkOffset",
                     index |-> res.index,
                     position |-> LoopPosition(op, rd, wr, res),
                     arg |-> bytePosition, err |-> r.err,
                     context |-> res.context])
    /\ UNCHANGED <<rd, wr, items>>

\* the element codec of the index: arrayTraitsRead, arrayTraitsWrite,
\* arrayTraitsInitializeOffsets, packedArrayTraitsWrite or
\* packedArrayTraitsBitSizeOf
StepElement ==
    /\ phase = "element"
    /\ \E array \in {items[1].v}, op \in {items[1].op} :
       \E r \in {IF op = "read"
                 THEN ArrayTraits_read(rd, array.traits)
                 ELSE IF op = "write"
                 THEN ArrayTraits_write(wr, array.traits, array.rawArray[res.index + 1])
                 ELSE IF op = "initializeOffsets"
                 THEN ArrayTraits_bitSizeOf(array.traits, array.rawArray[res.index + 1])
                 ELSE IF op = "writePacked"
                 THEN DeltaContext_write(res.context, wr, array.traits,
                                         array.rawArray[res.index + 1])
                 ELSE The({[context |-> size.context, value |-> size.value,
                            err |-> ErrorCode.Success] :
                           size \in {DeltaContext_bitSizeOf(res.context, array.traits,
                                                            array.rawArray[res.index + 1])}})} :
           /\ rd' = IF op = "read" THEN r.ctx ELSE rd
           /\ wr' = IF op \in {"write", "writePacked"} THEN r.wr ELSE wr
           /\ res' = [res EXCEPT
                          !.err = r.err,
                          !.context = IF op \in {"writePacked", "bitSizeOfPacked"}
                                      THEN r.context ELSE @,
                          !.endBitPosition =
                              IF op \in {"initializeOffsets", "bitSizeOfPacked"}
                                 /\ r.err = ErrorCode.Success
                              THEN @ + r.value ELSE @,
                          !.index = IF r.err = ErrorCode.Success THEN @ + 1 ELSE @]
           /\ phase' = IF r.err # ErrorCode.Success THEN "failed"
                       ELSE afterElement(array.arrayType, res.index, res.arrayLength)
           /\ outs' = Append(outs, [step |-> "element", index |-> res.index,
                     position |-> LoopPosition(op, rd', wr', res'),
                     arg |-> 0, err |-> r.err,
                     context |-> res'.context])
    /\ UNCHANGED items

SpecLoop ==
    InitLoop /\ [][StepLength \/ StepInit \/ StepAlign \/ StepCheck \/ StepElement]_vars

\* C25: in read, write and initializeOffsets the element codec runs for the
\* indexes 0, 1, 2, ... in this order, each run only after every earlier one
\* returned success.  For the aligned array types the two calls before the
\* element codec of an index are, in this order, the alignment to the next
\* byte boundary and checkOffset (initializeOffset in initializeOffsets) for
\* that index with the byte position the alignment ended at; the other array
\* types make neither call.  The position, the outcome and the number of
\* elements at the end are those of the whole operation.
C25_LoopOrder ==
    items[1].op \in {"read", "write", "initializeOffsets"} =>
        LET array == items[1].v
            op == items[1].op
            aligned == array.arrayType \in {"ALIGNED", "ALIGNED_AUTO"}
            check == IF op = "initializeOffsets" THEN "initializeOffset" ELSE "checkOffset"
            elementsBefore(j) == {i \in 1..(j - 1) : outs[i].step = "element"}
        IN  /\ \A j \in 1..Len(outs) :
                   /\ outs[j].step = "length" <=> j = 1
                   /\ outs[j].step # "init"
                   /\ outs[j].step # "length" =>
                          /\ outs[j].index = Cardinality(elementsBefore(j))
                          /\ \A i \in elementsBefore(j) :
                                 /\ outs[i].err = ErrorCode.Success
                                 /\ outs[i].index < outs[j].index
                   /\ outs[j].step = "element" /\ aligned =>
                          /\ j >= 3
                          /\ outs[j - 2].step = "align"
                          /\ outs[j - 2].index = outs[j].index
                          /\ outs[j - 2].err = ErrorCode.Success
                          /\ outs[j - 2].position % 8 = 0
                          /\ outs[j - 1].step = check
                          /\ outs[j - 1].index = outs[j].index
                          /\ outs[j - 1].err = ErrorCode.Success
                          /\ outs[j - 1].arg = outs[j - 2].position \div 8
                   /\ outs[j].step = "element" /\ ~aligned =>
                          outs[j - 1].step \in {"length", "element"}
                   /\ outs[j].step \in {"align", check} => aligned
                   /\ outs[j].step = check => outs[j - 1].step = "align"
                   /\ outs[j].step = "align" => outs[j - 1].step \in {"length", "element"}
            /\ phase = "done" =>
                   Cardinality(elementsBefore(Len(outs) + 1)) = res.arrayLength
            /\ (phase \in {"done", "failed"} /\ op = "read") =>
                   \E r \in {readImpl(array.arrayType, array.traits, NoOffsets,
                                      setBitPosition(
                                          ReaderContext(rd.buffer, rd.bufferBitSize, 64, TRUE),
                                          items[1].pos).ctx,
                                      Len(array.rawArray))} :
                       /\ r.ctx = rd
                       /\ r.err = res.err
                       /\ Len(r.value) = Cardinality({j \in 1..Len(outs) :
                                                          /\ outs[j].step = "element"
                                                          /\ outs[j].err = ErrorCode.Success})
            /\ (phase \in {"done", "failed"} /\ op = "write") =>
                   \E r \in {writeImpl(array,
                                       [BitStreamWriter([k \in 1..Len(wr.buffer) |-> 0],
                                                        wr.bufferBitSize)
                                            EXCEPT !.bitIndex = items[1].pos])} :
                       r.wr = wr /\ r.err = res.err
            /\ (phase \in {"done", "failed"} /\ op = "initializeOffsets") =>
                   \E r \in {initializeOffsetsImpl(array, items[1].pos)} :
                       /\ r.err = res.err
                       /\ r.err = ErrorCode.Success => r.value = res.endBitPosition

\* an aligned array of three 3 bit elements written from bit 3 on: the length
\* call and three times alignment, checkOffset and element codec, with
\* checkOffset called for the bytes 1, 2 and 3
C25_Witness ==
    /\ phase = "done"
    /\ items[1] = [v |-> [shape |-> "array", arrayType |-> "ALIGNED", packed |-> FALSE,
                          traits |-> [kind |-> "bits", numBits |-> 3],
                          rawArray |-> <<BvOfNat(1, 4), BvOfNat(5, 4), BvOfNat(7, 4)>>],
                   pos |-> 3, op |-> "write"]
    /\ Len(outs) = 10
    /\ outs[3].step = "checkOffset" /\ outs[3].arg = 1
    /\ outs[6].step = "checkOffset" /\ outs[6].arg = 2
    /\ outs[9].step = "checkOffset" /\ outs[9].arg = 3
    /\ outs[10].step = "element" /\ outs[10].index = 2
    /\ wr.bitIndex = 27

\* C26: a packed write and a packed bitSizeOf of n > 0 elements call init on a
\* newly constructed context for the elements 0 .. n - 1, in this order and
\* once each, before any alignment or element call, and the position does not
\* move during these calls; every element call works on the context these n
\* init calls built; the outcome is that of the whole operation.
C26_InitPassThenEmitPass ==
    (/\ items[1].op \in {"writePacked", "bitSizeOfPacked"}
     /\ Len(items[1].v.rawArray) > 0)
    => LET array == items[1].v
           n == Len(items[1].v.rawArray)
       IN  /\ \A j \in 1..Len(outs) :
                  /\ outs[j].step = "length" <=> j = 1
                  /\ outs[j].step = "init" <=> (j >= 2 /\ j <= n + 1)
                  /\ outs[j].step = "init" =>
                         /\ outs[j].index = j - 2
                         /\ outs[1].context = DeltaContext
                         /\ outs[j].context
                                = DeltaContext_init(outs[j - 1].context, array.traits,
                                                    array.rawArray[j - 1])
                         /\ outs[j].position = outs[1].position
                  /\ outs[j].step \in {"align", "element"} =>
                         /\ j > n + 1
                         /\ outs[n + 1].context = initContext(array.traits, array.rawArray)
                         /\ \A f \in {"maxBitNumber", "numElements", "unpackedBitSize",
                                      "firstElementBitSize", "INIT_STARTED_FLAG"} :
                                outs[j].context[f] = outs[n + 1].context[f]
                         /\ outs[j].context.numElements = n
                  /\ outs[j].step = "element" =>
                         /\ outs[j].context.PROCESSING_STARTED_FLAG
                         /\ outs[j].context.IS_PACKED_FLAG
                                = finishInit(outs[n + 1].context).IS_PACKED_FLAG
                         /\ outs[j].index = Cardinality({i \in 1..(j - 1) :
                                                             outs[i].step = "element"})
           /\ phase \in {"align", "element", "done"} => Len(outs) >= n + 1
           /\ (phase \in {"done", "failed"} /\ items[1].op = "writePacked") =>
                  \E r \in {writePackedImpl(array,
                                            [BitStreamWriter([k \in 1..Len(wr.buffer) |-> 0],
                                                             wr.bufferBitSize)
                                                 EXCEPT !.bitIndex = items[1].pos])} :
                      r.wr = wr /\ r.err = res.err
           /\ (phase = "done" /\ items[1].op = "bitSizeOfPacked") =>
                  res.endBitPosition - items[1].pos = bitSizeOfPackedImpl(array, items[1].pos)

\* three varuint16 elements written packed: the length call, three init calls,
\* then three element calls on the context the init calls built
C26_Witness ==
    /\ phase = "done"
    /\ items[1].op = "writePacked"
    /\ items[1].v.arrayType = "NORMAL"
    /\ items[1].v.rawArray = <<(<<0, 127>>), (<<0, 128>>), (<<0, 127>>)>>
    /\ Len(outs) = 7
    /\ outs[2].step = "init" /\ outs[4].step = "init" /\ outs[4].index = 2
    /\ outs[5].step = "element" /\ outs[5].index = 0
    /\ outs[4].context.maxBitNumber = 1
    /\ outs[7].context.IS_PACKED_FLAG
    /\ res.err = ErrorCode.Success
---------------------------------------------------------------------------
(* Two readers constructed over one span, each driven by a thread of its own. *)
(* items holds the bytes of the span and the calls each thread makes, rd the  *)
(* two reader contexts, outs what each reader's calls returned so far.  A     *)
(* context refers to the span (Span<const uint8_t>), it holds no copy of it.  *)

\* one call on a reader
SharedCall(ctx, call) ==
    IF call.op = "readBits" THEN readBits(ctx, call.arg)
    ELSE IF call.op = "readBits64" THEN readBits64(ctx, call.arg)
    ELSE IF call.op = "readSignedBits" THEN readSignedBits(ctx, call.arg)
    ELSE IF call.op = "readBool" THEN readBool(ctx)
    ELSE IF call.op = "setBitPosition" THEN setBitPosition(ctx, call.arg)
    ELSE IF call.op = "alignTo" THEN alignTo(ctx, call.arg)
    ELSE readVarNum("varint64", ctx)

InitShared ==
    /\ \E programs \in
              [1..2 -> {<<[op |-> "readBits", arg |-> 13], [op |-> "varint64", arg |-> 0],
                          [op |-> "alignTo", arg |-> 8], [op |-> "readBits64", arg |-> 40]>>,
                        <<[op |-> "readBool", arg |-> 0], [op |-> "readSignedBits", arg |-> 5],
                          [op |-> "readBits64", arg |-> 64], [op |-> "readBits", arg |-> 13]>>,
                        <<[op |-> "setBitPosition", arg |-> 77], [op |-> "readBits", arg |-> 1],
                          [op |-> "setBitPosition", arg |-> 3], [op |-> "readBits", arg |-> 32]>>,
                        <<[op |-> "readBits", arg |-> 33], [op |-> "readBits", arg |-> 32],
                          [op |-> "readBool", arg |-> 0]>>}],
          bits \in [1..2 -> {8 * Len(ReaderBuffer), 8 * Len(ReaderBuffer) - 3}],
          W \in {32, 64}, wraps \in BOOLEAN :
           /\ W = 64 => wraps
           /\ items = <<[span |-> ReaderBuffer, programs |-> programs]>>
           /\ rd = [t \in 1..2 |-> ReaderContext(ReaderBuffer, bits[t], W, wraps)]
    /\ outs = <<(<<>>), (<<>>)>>
    /\ res = noResult
    /\ wr = <<>>
    /\ phase = "shared"

\* the thread of reader t makes its next call; the reader works on the bytes
\* the span holds at that time
ReaderStep ==
    \E t \in 1..2 :
        /\ Len(outs[t]) < Len(items[1].programs[t])
        /\ \E r \in {SharedCall([rd[t] EXCEPT !.buffer = items[1].span],
                                items[1].programs[t][Len(outs[t]) + 1])} :
               /\ rd' = [rd EXCEPT ![t] = r.ctx]
               /\ outs' = [outs EXCEPT ![t] = Append(@, [err |-> r.err, value |-> r.value])]
               /\ items' = [items EXCEPT ![1].span = r.ctx.buffer]
        /\ UNCHANGED <<res, wr, phase>>

SpecShared == InitShared /\ [][ReaderStep]_vars

\* a reader that makes the first k calls of a program with no other reader on
\* the span: the context and what the calls returned
SoloRun(ctx, program, k) ==
    LET run[index \in 0..k] ==
            IF index = 0 THEN [ctx |-> ctx, outs |-> <<>>]
            ELSE The({The({[ctx |-> r.ctx,
                            outs |-> Append(before.outs, [err |-> r.err, value |-> r.value])] :
                           r \in {SharedCall(before.ctx, program[index])}}) :
                      before \in {run[index - 1]}})
    IN  run[k]

\* C21: under every interleaving of the calls of two readers over one span,
\* each reader has returned what it returns when it makes the same calls
\* alone, its context (bit position and cache) is the one it has then, and
\* the bytes of the span are those it was constructed over.
C21_ReadersDoNotInterfere ==
    /\ items[1].span = ReaderBuffer
    /\ \A t \in 1..2 :
           \E alone \in {SoloRun(ReaderContext(ReaderBuffer, rd[t].bufferBitSize,
                                               rd[t].cacheBitSize, rd[t].shiftWraps),
                                 items[1].programs[t], Len(outs[t]))} :
               /\ outs[t] = alone.outs
               /\ rd[t] = alone.ctx

\* both readers have made all their calls, the first ended at bit 72 after a
\* varint64, the second at bit 36 after moving back from bit 78
C21_Witness ==
    /\ Len(outs[1]) = 4 /\ Len(outs[2]) = 4
    /\ items[1].programs[1][2].op = "varint64"
    /\ items[1].programs[2][1].op = "setBitPosition"
    /\ outs[1][2].err = ErrorCode.Success
    /\ rd[1].bitIndex # rd[2].bitIndex
    /\ outs[2][4].err = ErrorCode.Success
    /\ rd[2].bitIndex = 35
---------------------------------------------------------------------------
(* CountingMemoryResource used by several threads.  res holds the members of  *)
(* the resource, phase the place of each thread in doAllocate or              *)
(* doDeallocate, items the locals of each thread, outs the sizes of the       *)
(* blocks each thread holds, rd what the last call of each thread returned.   *)
(* Every load, fetch_add, fetch_sub and compare_exchange of a member is one   *)
(* step; what a thread does to the block it alone refers to is part of the    *)
(* step before.                                                               *)

\* the threads
NumThreads == 2

\* the most allocations counted before the threads stop allocating
MaxAllocations == 4

\* headerSize + bytes + sizeof(uint32_t), with sizeof(AllocationHeader) = 32 of a
\* target with 8 byte size_t
totalSize(bytes) == 32 + bytes + 4

InitCount ==
    /\ \E maxMemory \in {72, 100} :
           res = [maxMemory |-> maxMemory, currentMemory |-> 0, peakMemory |-> 0,
                  totalAllocated |-> 0, allocationCount |-> 0, deallocationCount |-> 0]
    /\ phase = [t \in 1..NumThreads |-> "idle"]
    /\ items = [t \in 1..NumThreads |-> [bytes |-> 0, current |-> 0, peak |-> 0]]
    /\ outs = [t \in 1..NumThreads |-> <<>>]
    /\ rd = [t \in 1..NumThreads |-> [ret |-> "none", bytes |-> 0, seen |-> 0]]
    /\ wr = <<>>

\* doAllocate of one thread, a step at a time
doAllocate ==
    \E t \in 1..NumThreads :
        \* the check of the memory limit on the loaded m_currentMemory: nullptr
        \/ /\ phase[t] = "idle"
           /\ res.allocationCount < MaxAllocations
           /\ \E bytes \in {4, 28} :
                  /\ res.maxMemory > 0
                  /\ res.currentMemory + totalSize(bytes) > res.maxMemory
                  /\ rd' = [rd EXCEPT ![t] = [ret |-> "nullptr", bytes |-> bytes,
                                              seen |-> res.currentMemory]]
           /\ UNCHANGED <<res, phase, items, outs, wr>>
        \* the check passes: operator new, the header and the end magic
        \/ /\ phase[t] = "idle"
           /\ res.allocationCount < MaxAllocations
           /\ \E bytes \in {4, 28} :
                  /\ ~(res.maxMemory > 0
                       /\ res.currentMemory + totalSize(bytes) > res.maxMemory)
                  /\ items' = [items EXCEPT ![t].bytes = bytes]
                  /\ rd' = [rd EXCEPT ![t] = [ret |-> "none", bytes |-> bytes,
                                              seen |-> res.currentMemory]]
           /\ phase' = [phase EXCEPT ![t] = "currentMemory"]
           /\ UNCHANGED <<res, outs, wr>>
        \* m_currentMemory.fetch_add(totalSize)
        \/ /\ phase[t] = "currentMemory"
           /\ res' = [res EXCEPT !.currentMemory = @ + totalSize(items[t].bytes)]
           /\ phase' = [phase EXCEPT ![t] = "totalAllocated"]
           /\ UNCHANGED <<items, outs, rd, wr>>
        \* m_totalAllocated.fetch_add(totalSize)
        \/ /\ phase[t] = "totalAllocated"
           /\ res' = [res EXCEPT !.totalAllocated = @ + totalSize(items[t].bytes)]
           /\ phase' = [phase EXCEPT ![t] = "allocationCount"]
           /\ UNCHANGED <<items, outs, rd, wr>>
        \* m_allocationCount.fetch_add(1)
        \/ /\ phase[t] = "allocationCount"
           /\ res' = [res EXCEPT !.allocationCount = @ + 1]
           /\ phase' = [phase EXCEPT ![t] = "current"]
           /\ UNCHANGED <<items, outs, rd, wr>>
        \* current = m_currentMemory.load()
        \/ /\ phase[t] = "current"
           /\ items' = [items EXCEPT ![t].current = res.currentMemory]
           /\ phase' = [phase EXCEPT ![t] = "peak"]
           /\ UNCHANGED <<res, outs, rd, wr>>
        \* peak = m_peakMemory.load()
        \/ /\ phase[t] = "peak"
           /\ items' = [items EXCEPT ![t].peak = res.peakMemory]
           /\ phase' = [phase EXCEPT ![t] = "exchange"]
           /\ UNCHANGED <<res, outs, rd, wr>>
        \* current > peak and compare_exchange_weak fails: peak is reloaded
        \/ /\ phase[t] = "exchange"
           /\ items[t].current > items[t].peak
           /\ res.peakMemory # items[t].peak
           /\ items' = [items EXCEPT ![t].peak = res.peakMemory]
           /\ UNCHANGED <<res, phase, outs, rd, wr>>
        \* current > peak and compare_exchange_weak succeeds; the pointer is
        \* returned
        \/ /\ phase[t] = "exchange"
           /\ items[t].current > items[t].peak
           /\ res.peakMemory = items[t].peak
           /\ res' = [res EXCEPT !.peakMemory = items[t].current]
           /\ phase' = [phase EXCEPT ![t] = "idle"]
           /\ outs' = [outs EXCEPT ![t] = Append(@, items[t].bytes)]
           /\ rd' = [rd EXCEPT ![t].ret = "pointer"]
           /\ UNCHANGED <<items, wr>>
        \* current <= peak; the pointer is returned
        \/ /\ phase[t] = "exchange"
           /\ items[t].current <= items[t].peak
           /\ phase' = [phase EXCEPT ![t] = "idle"]
           /\ outs' = [outs EXCEPT ![t] = Append(@, items[t].bytes)]
           /\ rd' = [rd EXCEPT ![t].ret = "pointer"]
           /\ UNCHANGED <<res, items, wr>>

\* doDeallocate of one thread for a block it holds, with the size and the
\* alignment it was allocated with: the checks of the header pass
doDeallocate ==
    \E t \in 1..NumThreads :
        \* m_currentMemory.fetch_sub(totalSize)
        \/ /\ phase[t] = "idle"
           /\ \E i \in 1..Len(outs[t]) :
                  /\ res' = [res EXCEPT !.currentMemory = @ - totalSize(outs[t][i])]
                  /\ outs' = [outs EXCEPT ![t] = SubSeq(@, 1, i - 1)
                                                 \o SubSeq(@, i + 1, Len(@))]
                  /\ rd' = [rd EXCEPT ![t] = [ret |-> "none", bytes |-> outs[t][i],
                                              seen |-> res.currentMemory]]
           /\ phase' = [phase EXCEPT ![t] = "deallocationCount"]
           /\ UNCHANGED <<items, wr>>
        \* m_deallocationCount.fetch_add(1), the magic values are cleared and the
        \* block is freed
        \/ /\ phase[t] = "deallocationCount"
           /\ res' = [res EXCEPT !.deallocationCount = @ + 1]
           /\ phase' = [phase EXCEPT ![t] = "idle"]
           /\ rd' = [rd EXCEPT ![t].ret = "freed"]
           /\ UNCHANGED <<items, outs, wr>>

SpecCount == InitCount /\ [][doAllocate \/ doDeallocate]_vars

=============================================================================
